---- MODULE Spec2Model ----
(***************************************************************************)
(* The resolve pass of the descriptor pool (prost-reflect,                 *)
(* descriptor/build/resolve.rs): one traversal of a file's declarations,   *)
(* each handed to a ResolveVisitor callback that fills the pool's arenas,  *)
(* rewrites the raw descriptor and collects errors.                        *)
(*                                                                         *)
(* Conventions.  Option<T> is a sequence: <<>> is None, <<x>> is Some(x).  *)
(* A dotted name is the sequence of its segments; a leading "." is the     *)
(* segment ".", the empty string is <<>>.  A source path is a sequence of  *)
(* int32 tags.  A u32 is the pair of its 16-bit limbs <<hi, lo>>.          *)
(***************************************************************************)
EXTENDS Integers, Sequences, FiniteSets, TLC

\* ------------------------------------------------------------------ bounds

\* The input declares at most MaxDecls fields, extensions and methods in all,
MaxDecls == 2

\* and at most MaxWide in the families that vary many attributes of a declaration.
MaxWide == 1

\* The enum of the input declares at most MaxValues values.
MaxValues == 2

\* The texts handed to the escape decoder have at most MaxText characters.
MaxText == 5

\* The message handed to the type map declares at most MaxFields fields.
MaxFields == 3

\* ----------------------------------------------------------------- helpers

None == <<>>

Some(x) == <<x>>

IsSome(o) == o # <<>>

Unwrap(o) == o[1]

UnwrapOr(o, d) == IF o = <<>> THEN d ELSE o[1]

\* HashMap::insert / BTreeMap::insert: the map with k bound to v.
MapInsert(m, k, v) == [x \in (DOMAIN m) \cup {k} |-> IF x = k THEN v ELSE m[x]]

\* The value insert returns: the entry k had before.
MapGet(m, k) == IF k \in DOMAIN m THEN <<m[k]>> ELSE <<>>

EmptyMap == [x \in {} |-> 0]

\* `n as u32` of an i32: the two's-complement bit pattern, as 16-bit limbs.
AsU32(n) == <<(n \div 65536) % 65536, n % 65536>>

\* join_path(path, tail)
join_path(path, tail) == path \o tail

\* descriptor.proto field numbers used as path tags (descriptor::tag).
tag ==
  [file       |-> [DEPENDENCY |-> 3, MESSAGE_TYPE |-> 4, ENUM_TYPE |-> 5,
                   SERVICE |-> 6, EXTENSION |-> 7],
   message    |-> [FIELD |-> 2, NESTED_TYPE |-> 3, ENUM_TYPE |-> 4,
                   EXTENSION_RANGE |-> 5, EXTENSION |-> 6, ONEOF_DECL |-> 8,
                   RESERVED_RANGE |-> 9],
   field      |-> [NAME |-> 1, EXTENDEE |-> 2, NUMBER |-> 3, LABEL |-> 4, TYPE |-> 5,
                   TYPE_NAME |-> 6, DEFAULT_VALUE |-> 7, JSON_NAME |-> 10],
   enum_      |-> [VALUE |-> 2, RESERVED_RANGE |-> 4],
   enum_value |-> [NAME |-> 1, NUMBER |-> 2],
   service    |-> [METHOD |-> 2],
   method     |-> [INPUT_TYPE |-> 2, OUTPUT_TYPE |-> 3]]

\* field_descriptor_proto::Type, by name.
Type ==
  [Double |-> 1, Float |-> 2, Int64 |-> 3, Uint64 |-> 4, Int32 |-> 5, Fixed64 |-> 6,
   Fixed32 |-> 7, Bool |-> 8, String |-> 9, Group |-> 10, Message |-> 11, Bytes |-> 12,
   Uint32 |-> 13, Enum |-> 14, Sfixed32 |-> 15, Sfixed64 |-> 16, Sint32 |-> 17,
   Sint64 |-> 18]

\* field_descriptor_proto::Type::from_i32: the variant of a tag, None if unknown.
Type_from_i32(t) ==
  IF \E n \in DOMAIN Type : Type[n] = t
  THEN Some(CHOOSE n \in DOMAIN Type : Type[n] = t)
  ELSE None

\* ------------------------------------------------------------------- kinds

\* KindIndex: a scalar carries no handle (h = -1).
Scalar(k) == [k |-> k, h |-> -1]

KindMessage(h) == [k |-> "Message", h |-> h]

KindEnum(h) == [k |-> "Enum", h |-> h]

KindGroup(h) == [k |-> "Group", h |-> h]

\* KindIndex::is_packable: every scalar but String and Bytes, and every enum.
is_packable(kind) == kind.k \notin {"String", "Bytes", "Message", "Group"}

\* KindIndex::is_message
is_message(kind) == kind.k \in {"Message", "Group"}

\* MessageIndex::MAX, the handle recorded for a message reference that failed.
MessageIndex_MAX == AsU32(-1)

\* ---------------------------------------------------------- the name table

Definition(kind, idx, file, path) == [kind |-> kind, idx |-> idx, file |-> file, path |-> path]

\* names.get(full), with the canonical spelling of the name found.
Lookup(nm, full) ==
  IF full \in DOMAIN nm THEN Some([name |-> <<".">> \o full, def |-> nm[full]]) ELSE None

RECURSIVE resolve_relative_name_fallback(_, _, _)
\* A search that falls back to shorter prefixes when the whole name is not
\* declared under the first base.
resolve_relative_name_fallback(nm, scope, name) ==
  IF (scope \o name) \in DOMAIN nm
  THEN Lookup(nm, scope \o name)
  ELSE IF scope = <<>>
       THEN None
       ELSE resolve_relative_name_fallback(nm, SubSeq(scope, 1, Len(scope) - 1), name)

RECURSIVE resolve_relative_name(_, _, _)
\* The first scope prefix, longest first, under which the name's first segment is
\* declared fixes the base; the whole name is then looked up under that base only.
resolve_relative_name(nm, scope, name) ==
  IF (scope \o <<Head(name)>>) \in DOMAIN nm
  THEN Lookup(nm, scope \o name)
  ELSE IF scope = <<>>
       THEN None
       ELSE resolve_relative_name(nm, SubSeq(scope, 1, Len(scope) - 1), name)

\* build::resolve_name(names, scope, name) -> Option<(type_name, def)>
resolve_name(nm, scope, name) ==
  IF name = <<>> THEN None
  ELSE IF Head(name) = "." THEN Lookup(nm, Tail(name))
  ELSE resolve_relative_name(nm, scope, name)

\* ------------------------------------------------------------------ errors

\* DescriptorErrorKind: `found`/`second`/`label` is the path of the label on the
\* offending declaration, `other` the path of the `first`/`defined` label.
Error(kind, number, found, other, range, name) ==
  [kind |-> kind, number |-> number, found |-> found, other |-> other,
   range |-> range, name |-> name, what |-> <<>>]

\* The error with its `expected` / `kind` text (a dotted name or one segment).
What(e, what) == [e EXCEPT !.what = what]

\* Range<i32>::contains
RangeContains(r, n) == r.start <= n /\ n < r.end

\* RangeInclusive<i32>::contains
RangeInclusiveContains(r, n) == r.start <= n /\ n <= r.end

\* 1..536_870_912
VALID_MESSAGE_FIELD_NUMBERS == [start |-> 1, end |-> 536870912]

\* 19_000..20_000
RESERVED_MESSAGE_FIELD_NUMBERS == [start |-> 19000, end |-> 20000]

\* ----------------------------------------------------------- the pool state

VARIABLES
  pool,      \* DescriptorPoolInner: files, file_names, names and the arenas
  errors,    \* ResolveVisitor.errors
  input,     \* the declarations the driver has handed out so far, by path
  family,    \* the class of inputs this run draws its declarations from
  context,   \* the driver's position and offsets (visit::Context)
  result     \* what resolve_names returned, None while it runs

vars == <<pool, errors, input, family, context, result>>

\* The handle of the file being resolved; file 0 was added to the pool before.
FILE == 1

\* Element h of an arena (handles count from 0).
At(arena, h) == arena[h + 1]

\* find_message_proto / find_enum_proto: the raw declaration at a path.
find_proto(raw, path) == raw[path]

\* The accessors of FieldDescriptorProto for absent optional fields.
extendee_of(field) == UnwrapOr(field.extendee, <<>>)

json_name_of(field) == UnwrapOr(field.json_name, "")

proto3_optional_of(field) == UnwrapOr(field.proto3_optional, FALSE)

\* FieldOptions::packed()
packed_of(options) == UnwrapOr(options.packed, FALSE)

\* FieldDescriptorProto::r#type(): an absent or unknown tag reads as Double.
type_of(field) ==
  IF field.type = None THEN "Double" ELSE UnwrapOr(Type_from_i32(Unwrap(field.type)), "Double")

\* ------------------------------------------------- canonicalization write-back

\* A write-back that overwrites the type tag of a group field as well.
set_field_type_name_always(field, tg, type_name, ty) ==
  IF tg = tag.field.TYPE_NAME
  THEN [field EXCEPT !.type_name = type_name, !.type = Some(Type[ty])]
  ELSE [field EXCEPT !.extendee = Some(type_name)]

set_field_type_name(field, tg, type_name, ty) ==
  IF tg = tag.field.TYPE_NAME
  THEN [field EXCEPT !.type_name = type_name,
                     !.type = IF type_of(field) # "Group" THEN Some(Type[ty]) ELSE @]
  ELSE [field EXCEPT !.extendee = Some(type_name)]

RECURSIVE set_message_type_name(_, _, _, _, _, _)
\* `base` is the path of `message` in the file, `path` the rest of the path.
set_message_type_name(raw, base, path, tg, type_name, ty) ==
  IF path[1] \in {tag.message.FIELD, tag.message.EXTENSION}
  THEN [raw EXCEPT ![base \o path] = set_field_type_name(@, tg, type_name, ty)]
  ELSE set_message_type_name(raw, base \o SubSeq(path, 1, 2),
                             SubSeq(path, 3, Len(path)), tg, type_name, ty)

set_file_type_name(raw, path, tg, type_name, ty) ==
  IF path[1] = tag.file.MESSAGE_TYPE
  THEN set_message_type_name(raw, SubSeq(path, 1, 2), SubSeq(path, 3, Len(path)),
                             tg, type_name, ty)
  ELSE IF path[1] = tag.file.SERVICE
  THEN IF tg = tag.method.INPUT_TYPE
       THEN [raw EXCEPT ![path].input_type = Some(type_name)]
       ELSE [raw EXCEPT ![path].output_type = Some(type_name)]
  ELSE [raw EXCEPT ![path] = set_field_type_name(@, tg, type_name, ty)]

\* ------------------------------------------------------ ResolveVisitor methods
\* `self` is [pool, errors]; a method returns the new self, with its value.

push_error(self, e) == [self EXCEPT !.errors = Append(@, e)]

\* A resolve_name that writes the name back as it was spelled.
self_resolve_name_as_spelled(self, scope, name, file, path, tg) ==
  LET hit == resolve_name(self.pool.names, scope, name) IN
  IF IsSome(hit)
  THEN LET ty == IF Unwrap(hit).def.kind = "Message" THEN "Message" ELSE "Enum" IN
       [self  |-> [self EXCEPT !.pool.files[file + 1].raw =
                      set_file_type_name(@, path, tg, name, ty)],
        value |-> Some(Unwrap(hit).def)]
  ELSE [self |-> self, value |-> None]

\* ResolveVisitor::resolve_name: on a hit of any definition kind the raw name is
\* rewritten, with type tag MESSAGE for a message and ENUM for everything else.
self_resolve_name(self, scope, name, file, path, tg) ==
  LET hit == resolve_name(self.pool.names, scope, name) IN
  IF IsSome(hit)
  THEN LET ty == IF Unwrap(hit).def.kind = "Message" THEN "Message" ELSE "Enum" IN
       [self  |-> [self EXCEPT !.pool.files[file + 1].raw =
                      set_file_type_name(@, path, tg, Unwrap(hit).name, ty)],
        value |-> Some(Unwrap(hit).def)]
  ELSE [self |-> self, value |-> None]

\* A find_message that fails without recording an error.
find_message_silent(self, scope, name, file, path1, path2) ==
  LET r == self_resolve_name(self, scope, name, file, path1, path2) IN
  IF IsSome(r.value) /\ Unwrap(r.value).kind = "Message"
  THEN [self |-> r.self, value |-> Some(Unwrap(r.value).idx)]
  ELSE [self |-> r.self, value |-> None]

find_message(self, scope, name, file, path1, path2) ==
  LET r == self_resolve_name(self, scope, name, file, path1, path2) IN
  IF IsSome(r.value) /\ Unwrap(r.value).kind = "Message"
  THEN [self |-> r.self, value |-> Some(Unwrap(r.value).idx)]
  ELSE IF IsSome(r.value)
  THEN [self  |-> push_error(r.self,
                    What(Error("InvalidType", 0, join_path(path1, <<path2>>),
                               Unwrap(r.value).path, None, name), <<"a message type">>)),
        value |-> None]
  ELSE [self  |-> push_error(r.self, Error("NameNotFound", 0, join_path(path1, <<path2>>),
                                           <<>>, None, name)),
        value |-> None]

add_missing_required_field_error(self, file, path) ==
  push_error(self, Error("MissingRequiredField", 0, path, <<>>, None, <<>>))

\* The scalar kinds of resolve_field_type's match on the type tag.
ScalarTypes ==
  {"Double", "Float", "Int64", "Uint64", "Int32", "Fixed64", "Fixed32", "Bool", "String",
   "Bytes", "Uint32", "Sfixed32", "Sfixed64", "Sint32", "Sint64"}

\* A resolution that takes a group reference for a plain message reference.
message_kind_plain(ty, message) == KindMessage(message)

\* The kind of a type name that resolved to message `message`: a group when the
\* raw type tag is GROUP.
message_kind(ty, message) ==
  IF ty = Some(Type.Group) THEN KindGroup(message) ELSE KindMessage(message)

\* Result<KindIndex, ()> as an option: None is Err(()).
resolve_field_type(self, ty, ty_name, scope, file, path) ==
  IF ty_name = <<>>
  THEN LET t == IF ty = None THEN None ELSE Type_from_i32(Unwrap(ty)) IN
       IF t = None
       THEN [self  |-> add_missing_required_field_error(
                         self, file, join_path(path, <<tag.field.TYPE>>)),
             value |-> None]
       ELSE IF Unwrap(t) \in ScalarTypes
       THEN [self |-> self, value |-> Some(Scalar(Unwrap(t)))]
       ELSE [self  |-> add_missing_required_field_error(
                         self, file, join_path(path, <<tag.field.TYPE_NAME>>)),
             value |-> None]
  ELSE LET r == self_resolve_name(self, scope, ty_name, file, path, tag.field.TYPE_NAME) IN
       IF IsSome(r.value) /\ Unwrap(r.value).kind = "Message"
       THEN [self  |-> r.self,
             value |-> Some(message_kind(ty, Unwrap(r.value).idx))]
       ELSE IF IsSome(r.value) /\ Unwrap(r.value).kind = "Enum"
       THEN [self |-> r.self, value |-> Some(KindEnum(Unwrap(r.value).idx))]
       ELSE IF IsSome(r.value)
       THEN [self  |-> push_error(r.self,
                         What(Error("InvalidType", 0, join_path(path, <<tag.field.TYPE_NAME>>),
                                    Unwrap(r.value).path, None, ty_name),
                              <<"a message or enum type">>)),
             value |-> None]
       ELSE [self  |-> push_error(r.self,
                         Error("NameNotFound", 0, join_path(path, <<tag.field.TYPE_NAME>>),
                               <<>>, None, ty_name)),
             value |-> None]

\* -------------------------------------------------------------- number checks

\* A search that ends on the last extension range holding the number.
find_extension_range_last(er, n) ==
  LET ehits == {i \in 1..Len(er) : RangeContains(er[i], n)} IN
  IF ehits = {} THEN None ELSE Some(CHOOSE i \in ehits : \A j \in ehits : i >= j)

\* Iterator::find over the extension ranges: the first one holding the number.
find_extension_range(er, n) ==
  LET ehits == {i \in 1..Len(er) : RangeContains(er[i], n)} IN
  IF ehits = {} THEN None ELSE Some(CHOOSE i \in ehits : \A j \in ehits : i <= j)

check_field_number(self, message, field, file, path) ==
  LET n     == field.number
      found == join_path(path, <<tag.field.NUMBER>>)
      s1    == IF ~RangeContains(VALID_MESSAGE_FIELD_NUMBERS, n)
                  \/ RangeContains(RESERVED_MESSAGE_FIELD_NUMBERS, n)
               THEN push_error(self, Error("InvalidFieldNumber", n, found, <<>>, None, <<>>))
               ELSE self
      msg   == At(self.pool.messages, message)
      message_proto == find_proto(At(self.pool.files, msg.id.file).raw, msg.id.path)
      rr    == message_proto.reserved_range
      hits  == SelectSeq([i \in 1..Len(rr) |-> i], LAMBDA i : RangeContains(rr[i], n))
      s2    == [s1 EXCEPT !.errors = @ \o
                 [j \in 1..Len(hits) |->
                    Error("FieldNumberInReservedRange", n, found,
                          join_path(msg.id.path, <<tag.message.RESERVED_RANGE, hits[j] - 1>>),
                          Some(rr[hits[j]]), <<>>)]]
      er    == message_proto.extension_range
      first == find_extension_range(er, n)
  IN  IF (field.extendee = None /\ first = None) \/ (field.extendee # None /\ first # None)
      THEN s2
      ELSE IF field.extendee = None
      THEN push_error(s2, Error("FieldNumberInExtensionRange", n, found,
                                join_path(msg.id.path,
                                          <<tag.message.EXTENSION_RANGE, Unwrap(first) - 1>>),
                                Some(er[Unwrap(first)]), <<>>))
      ELSE push_error(s2, Error("ExtensionNumberOutOfRange", n, found, <<>>, None,
                                msg.id.full_name))

\* A check_enum_number that takes the reserved ranges of an enum for half-open.
check_enum_number_half_open(self, enum_, value, file, path) ==
  LET e  == At(self.pool.enums, enum_)
      enum_proto == find_proto(At(self.pool.files, e.id.file).raw, e.id.path)
      rr == enum_proto.reserved_range
      hits == SelectSeq([i \in 1..Len(rr) |-> i],
                        LAMBDA i : RangeContains(rr[i], value.number))
  IN  [self EXCEPT !.errors = @ \o
         [j \in 1..Len(hits) |->
            Error("EnumNumberInReservedRange", value.number,
                  join_path(path, <<tag.field.NUMBER>>),
                  join_path(e.id.path, <<tag.enum_.RESERVED_RANGE, hits[j] - 1>>),
                  Some(rr[hits[j]]), <<>>)]]

check_enum_number(self, enum_, value, file, path) ==
  LET e  == At(self.pool.enums, enum_)
      enum_proto == find_proto(At(self.pool.files, e.id.file).raw, e.id.path)
      rr == enum_proto.reserved_range
      hits == SelectSeq([i \in 1..Len(rr) |-> i],
                        LAMBDA i : RangeInclusiveContains(rr[i], value.number))
  IN  [self EXCEPT !.errors = @ \o
         [j \in 1..Len(hits) |->
            Error("EnumNumberInReservedRange", value.number,
                  join_path(path, <<tag.field.NUMBER>>),
                  join_path(e.id.path, <<tag.enum_.RESERVED_RANGE, hits[j] - 1>>),
                  Some(rr[hits[j]]), <<>>)]]

\* ---------------------------------------------------------- the escape decoder
\* Text is the sequence of its UTF-8 bytes.

\* The ASCII codes the decoder and the parsers match on.
byte ==
  [backslash |-> 92, a |-> 97, b |-> 98, f |-> 102, n |-> 110, r |-> 114, t |-> 116,
   v |-> 118, question |-> 63, quote |-> 39, dquote |-> 34, zero |-> 48, seven |-> 55,
   nine |-> 57, x |-> 120, X |-> 88, plus |-> 43, minus |-> 45, dot |-> 46]

\* A table in which \n stands for the letter itself.
SimpleEscape_literal_n ==
  (97 :> 7) @@ (98 :> 8) @@ (102 :> 12) @@ (110 :> 110) @@ (114 :> 13) @@ (116 :> 9)
  @@ (118 :> 11) @@ (92 :> 92) @@ (63 :> 63) @@ (39 :> 39) @@ (34 :> 34)

\* The byte a one-letter escape stands for.
SimpleEscape ==
  (97 :> 7) @@ (98 :> 8) @@ (102 :> 12) @@ (110 :> 10) @@ (114 :> 13) @@ (116 :> 9)
  @@ (118 :> 11) @@ (92 :> 92) @@ (63 :> 63) @@ (39 :> 39) @@ (34 :> 34)

\* char::to_digit(16) of an ASCII byte.
to_digit16(c) ==
  IF c \in 48..57 THEN Some(c - 48)
  ELSE IF c \in 97..102 THEN Some(c - 87)
  ELSE IF c \in 65..70 THEN Some(c - 55)
  ELSE None

\* u8::from_str_radix(t, 16) of a two-byte slice: an optional '+', then hex digits.
u8_from_str_radix16(t) ==
  LET digits == IF t[1] = byte.plus THEN Tail(t) ELSE t IN
  IF \E i \in 1..Len(digits) : to_digit16(digits[i]) = None
  THEN None
  ELSE IF Len(digits) = 1
       THEN to_digit16(digits[1])
       ELSE Some(16 * Unwrap(to_digit16(digits[1])) + Unwrap(to_digit16(digits[2])))

\* str::is_char_boundary(i), i counted from 0: not inside a multi-byte character.
is_char_boundary(src, i) == i = 0 \/ i = Len(src) \/ (i < Len(src) /\ src[i + 1] \notin 128..191)

Ok(v) == [tag |-> "Ok", value |-> v]

Err(e) == [tag |-> "Err", value |-> e]

\* A panic of the running build (an arithmetic overflow under overflow checks, a
\* slice off a character boundary).
Panic == [tag |-> "Panic", value |-> <<>>]

RECURSIVE octal_digits(_, _, _, _, _)
\* The `for _ in 0..3` loop: [p, octal] after at most `left` more digits; octal is
\* a u8, so an overflow panics under overflow checks and wraps otherwise.
octal_digits(src, p, octal, left, checked) ==
  IF left > 0 /\ p < Len(src) /\ src[p + 1] >= byte.zero /\ src[p + 1] <= byte.seven
  THEN LET next == octal * 8 + (src[p + 1] - byte.zero) IN
       IF next > 255 /\ checked
       THEN [p |-> p, octal |-> octal, panic |-> TRUE]
       ELSE octal_digits(src, p + 1, next % 256, left - 1, checked)
  ELSE [p |-> p, octal |-> octal, panic |-> FALSE]

RECURSIVE unescape_loop(_, _, _, _)
\* The `while p < len` loop from read position p (counted from 0) with dst built.
unescape_loop(src, p, dst, checked) ==
  IF ~(p < Len(src)) THEN Ok(dst)
  ELSE IF src[p + 1] # byte.backslash THEN unescape_loop(src, p + 1, Append(dst, src[p + 1]), checked)
  ELSE IF p + 1 = Len(src) THEN Err("missing escape character")
  ELSE LET c == src[p + 2] IN
       IF c \in DOMAIN SimpleEscape
       THEN unescape_loop(src, p + 2, Append(dst, SimpleEscape[c]), checked)
       ELSE IF c >= byte.zero /\ c <= byte.seven
       THEN LET o == octal_digits(src, p + 1, 0, 3, checked) IN
            IF o.panic THEN Panic
            ELSE unescape_loop(src, o.p, Append(dst, o.octal), checked)
       ELSE IF c \in {byte.x, byte.X}
       THEN IF p + 1 + 3 > Len(src)
            THEN Err("hex escape must contain two characters")
            ELSE IF ~is_char_boundary(src, p + 1 + 3)
            THEN Panic
            ELSE LET b == u8_from_str_radix16(SubSeq(src, p + 3, p + 4)) IN
                 IF b = None THEN Err("invalid hex escape")
                 ELSE unescape_loop(src, p + 4, Append(dst, Unwrap(b)), checked)
       ELSE Err("invalid escape character")

\* unescape_c_escape_string(s) in a build with (checked) or without overflow checks.
unescape_c_escape_string(s, checked) == unescape_loop(s, 0, <<>>, checked)

RECURSIVE ty_unescape_loop(_, _, _, _)
\* Lines 451-539, the decoder of descriptor/ty: its errors carry no message, and
\* its hex escape asks for one byte after the x before it slices two.
ty_unescape_loop(src, p, dst, checked) ==
  IF ~(p < Len(src)) THEN Ok(dst)
  ELSE IF src[p + 1] # byte.backslash
  THEN ty_unescape_loop(src, p + 1, Append(dst, src[p + 1]), checked)
  ELSE IF p + 1 = Len(src) THEN Err(<<>>)
  ELSE IF src[p + 2] \in DOMAIN SimpleEscape
  THEN ty_unescape_loop(src, p + 2, Append(dst, SimpleEscape[src[p + 2]]), checked)
  ELSE IF src[p + 2] >= byte.zero /\ src[p + 2] <= byte.seven
  THEN IF octal_digits(src, p + 1, 0, 3, checked).panic THEN Panic
       ELSE ty_unescape_loop(src, octal_digits(src, p + 1, 0, 3, checked).p,
                             Append(dst, octal_digits(src, p + 1, 0, 3, checked).octal),
                             checked)
  ELSE IF src[p + 2] \in {byte.x, byte.X}
  THEN IF p + 1 + 2 > Len(src) THEN Err(<<>>)
       ELSE IF p + 1 + 3 > Len(src) \/ ~is_char_boundary(src, p + 1 + 3) THEN Panic
       ELSE IF u8_from_str_radix16(SubSeq(src, p + 3, p + 4)) = None THEN Err(<<>>)
       ELSE ty_unescape_loop(src, p + 4,
                             Append(dst, Unwrap(u8_from_str_radix16(SubSeq(src, p + 3, p + 4)))),
                             checked)
  ELSE Err(<<>>)

\* ------------------------------------------------------- default-value parsing

\* The UTF-8 bytes of the enum value names the inputs use.
utf8 == [X |-> <<88>>, Y |-> <<89>>]

Value(t, v) == [t |-> t, v |-> v]

AllDigits(t) == \A i \in 1..Len(t) : t[i] \in byte.zero..byte.nine

RECURSIVE decimal_value(_)
\* The number a digit string denotes (texts are short: no width overflows).
decimal_value(t) ==
  IF t = <<>> THEN 0
  ELSE 10 * decimal_value(SubSeq(t, 1, Len(t) - 1)) + (t[Len(t)] - byte.zero)

\* str::parse of an integer type: an optional sign ('-' for signed types only),
\* then at least one decimal digit.
parse_int(t, signed) ==
  IF t = <<>> THEN None
  ELSE IF Len(t) = 1 /\ t[1] \in {byte.plus, byte.minus} THEN None
  ELSE LET neg    == signed /\ t[1] = byte.minus
           digits == IF t[1] = byte.plus \/ neg THEN Tail(t) ELSE t
       IN  IF ~AllDigits(digits) THEN None
           ELSE Some(IF neg THEN 0 - decimal_value(digits) ELSE decimal_value(digits))

to_ascii_lowercase(t) == [i \in 1..Len(t) |-> IF t[i] \in 65..90 THEN t[i] + 32 ELSE t[i]]

\* Digit+ | Digit+ '.' Digit* | Digit* '.' Digit+
is_decimal(t) ==
  LET dots == {i \in 1..Len(t) : t[i] = byte.dot} IN
  IF dots = {} THEN t # <<>> /\ AllDigits(t)
  ELSE /\ Cardinality(dots) = 1
       /\ Len(t) > 1
       /\ \A i \in 1..Len(t) : i \in dots \/ t[i] \in byte.zero..byte.nine

\* str::parse::<f64>/<f32>: an optional sign, then inf, infinity, nan (any case)
\* or a decimal with an optional exponent.  The value is kept as its text.
parse_float(t) ==
  LET body == IF t # <<>> /\ t[1] \in {byte.plus, byte.minus} THEN Tail(t) ELSE t
      exps == {i \in 1..Len(body) : body[i] \in {101, 69}}
      e    == IF exps = {} THEN Len(body) + 1 ELSE CHOOSE i \in exps : \A j \in exps : i <= j
      mant == SubSeq(body, 1, e - 1)
      expo == SubSeq(body, e + 1, Len(body))
  IN  IF to_ascii_lowercase(body) \in
           {<<105, 110, 102>>, <<110, 97, 110>>, <<105, 110, 102, 105, 110, 105, 116, 121>>}
      THEN Some(t)
      ELSE IF is_decimal(mant) /\ (exps = {} \/ parse_int(expo, TRUE) # None)
      THEN Some(t)
      ELSE None

\* str::parse::<bool>
parse_bool(t) ==
  IF t = <<116, 114, 117, 101>> THEN Some(TRUE)
  ELSE IF t = <<102, 97, 108, 115, 101>> THEN Some(FALSE)
  ELSE None

\* Option::map(ctor) as a Result: None is the parse error.
Parsed(t, o) == IF o = None THEN Err("parse") ELSE Ok(Value(t, Unwrap(o)))

parse_simple_value(kind, value, checked) ==
  IF kind.k = "Double" THEN Parsed("F64", parse_float(value))
  ELSE IF kind.k = "Float" THEN Parsed("F32", parse_float(value))
  ELSE IF kind.k \in {"Int32", "Sint32", "Sfixed32"} THEN Parsed("I32", parse_int(value, TRUE))
  ELSE IF kind.k \in {"Int64", "Sint64", "Sfixed64"} THEN Parsed("I64", parse_int(value, TRUE))
  ELSE IF kind.k \in {"Uint32", "Fixed32"} THEN Parsed("U32", parse_int(value, FALSE))
  ELSE IF kind.k \in {"Uint64", "Fixed64"} THEN Parsed("U64", parse_int(value, FALSE))
  ELSE IF kind.k = "Bool" THEN Parsed("Bool", parse_bool(value))
  ELSE IF kind.k = "String" THEN Ok(Value("String", value))
  ELSE LET r == unescape_c_escape_string(value, checked) IN
       IF r.tag = "Ok" THEN Ok(Value("Bytes", r.value)) ELSE r

\* enum_.values.iter().find(|v| v.id.name() == default_value): the first value
\* of that name.
find_value(values, name) ==
  LET ok == {i \in 1..Len(values) : utf8[values[i].id.name] = name} IN
  IF ok = {} THEN None ELSE Some(values[CHOOSE i \in ok : \A j \in ok : i <= j])

\* A parse that lets a default on a message or group pass without an error.
parse_field_default_value_lenient(self, kind, default_value, file, path) ==
  LET found == join_path(path, <<tag.field.DEFAULT_VALUE>>)
      bad(what) == push_error(self, What(Error("InvalidFieldDefault", 0, found, <<>>, None,
                                               UnwrapOr(default_value, <<>>)), what))
  IN
  IF default_value = None THEN [self |-> self, value |-> None]
  ELSE IF kind.k \in ScalarTypes
  THEN LET r == parse_simple_value(kind, Unwrap(default_value), self.checked) IN
       IF r.tag = "Ok" THEN [self |-> self, value |-> Some(r.value)]
       ELSE IF r.tag = "Panic" THEN [self |-> [self EXCEPT !.panic = TRUE], value |-> None]
       ELSE [self |-> bad(<<kind.k>>), value |-> None]
  ELSE IF kind.k = "Enum"
  THEN LET enum_ == At(self.pool.enums, kind.h)
           v == find_value(enum_.values, Unwrap(default_value))
       IN  IF IsSome(v)
           THEN [self |-> self, value |-> Some(Value("EnumNumber", Unwrap(v).number))]
           ELSE [self |-> bad(enum_.id.full_name), value |-> None]
  ELSE [self |-> self, value |-> None]

parse_field_default_value(self, kind, default_value, file, path) ==
  LET found == join_path(path, <<tag.field.DEFAULT_VALUE>>)
      \* The error's `kind` text: the kind's Debug name, the enum's full name,
      \* "message type".
      bad(what) == push_error(self, What(Error("InvalidFieldDefault", 0, found, <<>>, None,
                                               UnwrapOr(default_value, <<>>)), what))
  IN
  IF default_value = None THEN [self |-> self, value |-> None]
  ELSE IF kind.k \in ScalarTypes
  THEN LET r == parse_simple_value(kind, Unwrap(default_value), self.checked) IN
       IF r.tag = "Ok" THEN [self |-> self, value |-> Some(r.value)]
       ELSE IF r.tag = "Panic" THEN [self |-> [self EXCEPT !.panic = TRUE], value |-> None]
       ELSE [self |-> bad(<<kind.k>>), value |-> None]
  ELSE IF kind.k = "Enum"
  THEN LET enum_ == At(self.pool.enums, kind.h)
           v == find_value(enum_.values, Unwrap(default_value))
       IN  IF IsSome(v)
           THEN [self |-> self, value |-> Some(Value("EnumNumber", Unwrap(v).number))]
           ELSE [self |-> bad(enum_.id.full_name), value |-> None]
  ELSE [self |-> bad(<<"message type">>), value |-> None]

\* ------------------------------------------------------- the visitor callbacks

Identity(file, path, full_name, name) ==
  [file |-> file, path |-> path, full_name |-> full_name, name |-> name]

\* An insert whose returned entry is ignored: no duplicate is reported.
duplicate_error_ignored(kind, number, name, fields, existing, path, tg) == <<>>

\* A duplicate-key error of visit_field: `existing` is what insert returned.
duplicate_error(kind, number, name, fields, existing, path, tg) ==
  IF existing = None THEN <<>>
  ELSE <<Error(kind, number, join_path(path, <<tg>>),
               join_path(At(fields, Unwrap(existing)).id.path, <<tg>>), None, name)>>

\* A visit_file that holds the import indices against the resolved dependencies.
visit_file_resolved_bound(self, path, index, file) ==
  LET deps   == file.dependency
      hits   == SelectSeq([i \in 1..Len(deps) |-> i],
                          LAMBDA i : deps[i] \in DOMAIN self.pool.file_names)
      misses == SelectSeq([i \in 1..Len(deps) |-> i],
                          LAMBDA i : deps[i] \notin DOMAIN self.pool.file_names)
      bad(i) == ~(i >= 0 /\ i < Len(hits))
      import_errors(list) ==
        [j \in 1..Len(SelectSeq(list, bad)) |->
           Error("InvalidImportIndex", 0, <<>>, <<>>, None, <<>>)]
  IN  [self EXCEPT
         !.pool.files[index + 1].dependencies =
            @ \o [j \in 1..Len(hits) |-> self.pool.file_names[deps[hits[j]]]],
         !.errors =
            @ \o [j \in 1..Len(misses) |->
                    Error("FileNotFound", 0,
                          join_path(path, <<tag.file.DEPENDENCY, misses[j] - 1>>),
                          <<>>, None, <<deps[misses[j]]>>)]
              \o import_errors(file.public_dependency)
              \o import_errors(file.weak_dependency)]

visit_file(self, path, index, file) ==
  LET deps   == file.dependency
      hits   == SelectSeq([i \in 1..Len(deps) |-> i],
                          LAMBDA i : deps[i] \in DOMAIN self.pool.file_names)
      misses == SelectSeq([i \in 1..Len(deps) |-> i],
                          LAMBDA i : deps[i] \notin DOMAIN self.pool.file_names)
      bad(i) == ~(i >= 0 /\ i < Len(deps))
      import_errors(list) ==
        [j \in 1..Len(SelectSeq(list, bad)) |->
           Error("InvalidImportIndex", 0, <<>>, <<>>, None, <<>>)]
  IN  [self EXCEPT
         !.pool.files[index + 1].dependencies =
            @ \o [j \in 1..Len(hits) |-> self.pool.file_names[deps[hits[j]]]],
         !.errors =
            @ \o [j \in 1..Len(misses) |->
                    Error("FileNotFound", 0,
                          join_path(path, <<tag.file.DEPENDENCY, misses[j] - 1>>),
                          <<>>, None, <<deps[misses[j]]>>)]
              \o import_errors(file.public_dependency)
              \o import_errors(file.weak_dependency)]

\* Lines 107-112 / 378-383: is_packed of a field or extension.
field_is_packed(field, cardinality, kind, syntax) ==
  /\ cardinality = "Repeated"
  /\ (IF kind = None THEN FALSE ELSE is_packable(Unwrap(kind)))
  /\ (IF field.options = None THEN syntax = "Proto3" ELSE packed_of(Unwrap(field.options)))

\* A supports_presence that leaves the syntax of the file out.
field_supports_presence_strict(field, cardinality, kind, syntax) ==
  \/ proto3_optional_of(field)
  \/ field.oneof_index # None
  \/ /\ cardinality # "Repeated"
     /\ (IF kind = None THEN FALSE ELSE is_message(Unwrap(kind)))

\* Lines 114-117: supports_presence of a message field.
field_supports_presence(field, cardinality, kind, syntax) ==
  \/ proto3_optional_of(field)
  \/ field.oneof_index # None
  \/ /\ cardinality # "Repeated"
     /\ \/ (IF kind = None THEN FALSE ELSE is_message(Unwrap(kind)))
        \/ syntax = "Proto2"

\* kind.unwrap_or(KindIndex::Double)
kind_or_double(kind) == UnwrapOr(kind, Scalar("Double"))

\* Lines 145-208: the three uniqueness maps of the message, and their errors.
register_field(self, message, path, full_name, index, field) ==
  LET msg    == At(self.pool.messages, message)
      number == AsU32(field.number)
  IN  [self EXCEPT
         !.pool.messages[message + 1].field_numbers = MapInsert(@, number, index),
         !.pool.messages[message + 1].field_names = MapInsert(@, field.name, index),
         !.pool.messages[message + 1].field_json_names =
            MapInsert(@, json_name_of(field), index),
         !.errors =
            @ \o duplicate_error("DuplicateFieldNumber", number, <<>>, msg.fields,
                                 MapGet(msg.field_numbers, number), path, tag.field.NUMBER)
              \o duplicate_error("DuplicateName", 0, full_name, msg.fields,
                                 MapGet(msg.field_names, field.name), path, tag.field.NAME)
              \o duplicate_error("DuplicateFieldJsonName", 0, <<json_name_of(field)>>,
                                 msg.fields,
                                 MapGet(msg.field_json_names, json_name_of(field)), path,
                                 tag.field.NAME)]

\* A push that records the oneof of a field without listing the field in it.
visit_field_push_unlisted(d, kind, path, full_name, file, message, index, field) ==
  LET syntax == At(d.self.pool.files, file).syntax
      cardinality == field.label
      is_packed == field_is_packed(field, cardinality, kind, syntax)
      supports_presence == field_supports_presence(field, cardinality, kind, syntax)
      oneofs == At(d.self.pool.messages, message).oneofs
      valid == field.oneof_index # None /\ Unwrap(field.oneof_index) >= 0
               /\ Unwrap(field.oneof_index) < Len(oneofs)
      oneof == IF valid THEN field.oneof_index ELSE None
      s2 == IF field.oneof_index = None THEN d.self
            ELSE IF ~valid
            THEN push_error(d.self, Error("InvalidOneofIndex", 0, <<>>, <<>>, None, <<>>))
            ELSE d.self
      s3 == [s2 EXCEPT !.pool.messages[message + 1].fields =
               Append(@, [id |-> Identity(file, path, full_name, field.name),
                          number |-> AsU32(field.number),
                          kind |-> kind_or_double(kind),
                          oneof |-> oneof,
                          is_packed |-> is_packed,
                          supports_presence |-> supports_presence,
                          cardinality |-> cardinality,
                          default |-> d.value])]
  IN  register_field(s3, message, path, full_name, index, field)

\* Lines 107-117, 123-208: the flags, the oneof membership, the push onto the message's fields and
\* the uniqueness maps, given the resolved kind and the parsed default `d`.
visit_field_push(d, kind, path, full_name, file, message, index, field) ==
  LET syntax == At(d.self.pool.files, file).syntax
      cardinality == field.label
      is_packed == field_is_packed(field, cardinality, kind, syntax)
      supports_presence == field_supports_presence(field, cardinality, kind, syntax)
      oneofs == At(d.self.pool.messages, message).oneofs
      valid == field.oneof_index # None /\ Unwrap(field.oneof_index) >= 0
               /\ Unwrap(field.oneof_index) < Len(oneofs)
      oneof == IF valid THEN field.oneof_index ELSE None
      s2 == IF field.oneof_index = None THEN d.self
            ELSE IF ~valid
            THEN push_error(d.self, Error("InvalidOneofIndex", 0, <<>>, <<>>, None, <<>>))
            ELSE [d.self EXCEPT
                    !.pool.messages[message + 1].oneofs[Unwrap(oneof) + 1].fields =
                       Append(@, index)]
      s3 == [s2 EXCEPT !.pool.messages[message + 1].fields =
               Append(@, [id |-> Identity(file, path, full_name, field.name),
                          number |-> AsU32(field.number),
                          kind |-> kind_or_double(kind),
                          oneof |-> oneof,
                          is_packed |-> is_packed,
                          supports_presence |-> supports_presence,
                          cardinality |-> cardinality,
                          default |-> d.value])]
  IN  register_field(s3, message, path, full_name, index, field)

\* A visit_field that returns early when the kind failed to resolve.
visit_field_default_abort(r, path, full_name, file, message, index, field) ==
  IF r.value = None THEN r.self
  ELSE visit_field_push(
         parse_field_default_value(r.self, Unwrap(r.value), field.default_value, file, path),
         r.value, path, full_name, file, message, index, field)

\* Lines 119-121: the default value is parsed only when the kind resolved (`r`).
visit_field_default(r, path, full_name, file, message, index, field) ==
  visit_field_push(
    IF r.value = None THEN [self |-> r.self, value |-> None]
    ELSE parse_field_default_value(r.self, Unwrap(r.value), field.default_value, file, path),
    r.value, path, full_name, file, message, index, field)

visit_field(self, path, full_name, file, message, index, field) ==
  LET asserted == Len(At(self.pool.messages, message).fields) = index IN
  IF self.checked /\ ~asserted THEN [self EXCEPT !.panic = TRUE]
  ELSE visit_field_default(
         resolve_field_type(check_field_number(self, message, field, file, path),
                            field.type, field.type_name, full_name, file, path),
         path, full_name, file, message, index, field)

visit_service(self, path, full_name, file, index, service) ==
  LET asserted == Len(self.pool.services) = index IN
  IF self.checked /\ ~asserted THEN [self EXCEPT !.panic = TRUE]
  ELSE [self EXCEPT !.pool.services =
          Append(@, [id |-> Identity(file, path, full_name, service.name),
                     methods |-> <<>>])]

\* Option<MessageIndex>::unwrap_or(MessageIndex::MAX), as a u32.
message_or_max(message) == IF message = None THEN MessageIndex_MAX ELSE AsU32(Unwrap(message))

visit_method(self, path, full_name, file, service, index, method) ==
  LET asserted == Len(At(self.pool.services, service).methods) = index
      i == find_message(self, full_name, UnwrapOr(method.input_type, <<>>), file, path,
                        tag.method.INPUT_TYPE)
      o == find_message(i.self, full_name, UnwrapOr(method.output_type, <<>>), file, path,
                        tag.method.OUTPUT_TYPE)
  IN  IF self.checked /\ ~asserted THEN [self EXCEPT !.panic = TRUE]
      ELSE [o.self EXCEPT !.pool.services[service + 1].methods =
              Append(@, [id |-> Identity(file, path, full_name, method.name),
                         input |-> message_or_max(i.value),
                         output |-> message_or_max(o.value)])]

\* A push at the end, whatever the position asked for.
insert_at_end(vec, i, x) == Append(vec, x)

\* Vec::insert(i, x), i counted from 0.
insert_at(vec, i, x) == SubSeq(vec, 1, i) \o <<x>> \o SubSeq(vec, i + 1, Len(vec))

\* The outcomes binary_search_by may have: Ok(i) for any i holding the number,
\* else Err(i) for the one position that keeps the vector sorted.
binary_search(value_numbers, number) ==
  LET same == {i \in 0..(Len(value_numbers) - 1) : value_numbers[i + 1][1] = number} IN
  IF same # {} THEN {Ok(i) : i \in same}
  ELSE {Err(Cardinality({i \in 1..Len(value_numbers) : value_numbers[i][1] < number}))}

\* `found` is the outcome binary_search_by had.
visit_enum_value(self, path, full_name, file, enum_index, index, value, found) ==
  LET s1    == check_enum_number(self, enum_index, value, file, path)
      enum_ == At(s1.pool.enums, enum_index)
      existing == enum_.value_numbers[found.value + 1][2]
      dup_number ==
        IF found.tag = "Ok" /\ ~enum_.allow_alias
        THEN <<Error("DuplicateEnumNumber", value.number,
                     join_path(path, <<tag.enum_value.NUMBER>>),
                     join_path(At(enum_.values, existing).id.path, <<tag.enum_value.NUMBER>>),
                     None, <<>>)>>
        ELSE <<>>
      dup_name ==
        IF value.name \in DOMAIN enum_.value_names
        THEN <<Error("DuplicateName", 0, join_path(path, <<tag.enum_value.NAME>>),
                     join_path(At(enum_.values, enum_.value_names[value.name]).id.path,
                               <<tag.enum_value.NAME>>),
                     None, full_name)>>
        ELSE <<>>
  IN  [s1 EXCEPT
         !.pool.enums[enum_index + 1].value_numbers =
            insert_at(@, found.value, <<value.number, index>>),
         !.pool.enums[enum_index + 1].value_names = MapInsert(@, value.name, index),
         !.errors = @ \o dup_number \o dup_name]

\* Lines 378-399: is_packed and the push onto the pool's extensions, given the extendee, the
\* resolved kind and the parsed default `d`.
visit_extension_push(d, kind, extendee, path, full_name, file, parent_message, index, extension) ==
  LET syntax == At(d.self.pool.files, file).syntax
      cardinality == extension.label
      is_packed == field_is_packed(extension, cardinality, kind, syntax)
  IN  [d.self EXCEPT !.pool.extensions =
         Append(@, [id |-> Identity(file, path, full_name, extension.name),
                    parent |-> parent_message,
                    number |-> AsU32(extension.number),
                    json_name |-> <<"[">> \o full_name \o <<"]">>,
                    extendee |-> message_or_max(extendee),
                    kind |-> kind_or_double(kind),
                    is_packed |-> is_packed,
                    cardinality |-> cardinality,
                    default |-> d.value])]

\* Lines 385-387: the default value is parsed only when the kind resolved (`r`).
visit_extension_default(r, extendee, path, full_name, file, parent_message, index, extension) ==
  visit_extension_push(
    IF r.value = None THEN [self |-> r.self, value |-> None]
    ELSE parse_field_default_value(r.self, Unwrap(r.value), extension.default_value,
                                   file, path),
    r.value, extendee, path, full_name, file, parent_message, index, extension)

\* Lines 349-376: the number is checked, and the extension recorded on its
\* extendee, only when the extendee `e` resolved; then the kind is resolved.
visit_extension_extendee(e, path, full_name, file, parent_message, index, extension) ==
  visit_extension_default(
    resolve_field_type(
      IF e.value = None THEN e.self
      ELSE check_field_number(
             [e.self EXCEPT !.pool.messages[Unwrap(e.value) + 1].extensions =
                               Append(@, index)],
             Unwrap(e.value), extension, file, path),
      extension.type, extension.type_name, full_name, file, path),
    e.value, path, full_name, file, parent_message, index, extension)

visit_extension(self, path, full_name, file, parent_message, index, extension) ==
  LET asserted == Len(self.pool.extensions) = index IN
  IF self.checked /\ ~asserted THEN [self EXCEPT !.panic = TRUE]
  ELSE visit_extension_extendee(
         find_message(self, full_name, extendee_of(extension), file, path,
                      tag.field.EXTENDEE),
         path, full_name, file, parent_message, index, extension)

\* A resolve_names that surfaces only the first error.
resolve_names_result_first(errs) == IF errs = <<>> THEN Ok(<<>>) ELSE Err(<<errs[1]>>)

\* Lines 37-41: Ok(()) when no error was recorded, else Err with all of them.
resolve_names_result(errs) == IF errs = <<>> THEN Ok(<<>>) ELSE Err(errs)

\* ------------------------------------------------------------------ the input
\* One file `package p;` with message A (index 0, one oneof `o`), its nested message
\* B (index 1), enum E, service S and extensions at file level and inside A.  The
\* fields, extensions and methods are drawn when the driver reaches them; each
\* family of inputs varies some attributes exhaustively and keeps the rest at a
\* well-formed default.

Families ==
  {"scalar", "kind", "scope", "packed", "presence", "number", "unique", "extension",
   "method", "enum", "file", "default", "oneof", "order"}

PathA == <<tag.file.MESSAGE_TYPE, 0>>

PathB == PathA \o <<tag.message.NESTED_TYPE, 0>>

PathE == <<tag.file.ENUM_TYPE, 0>>

PathS == <<tag.file.SERVICE, 0>>

Range(start, end) == [start |-> start, end |-> end]

\* The names the declarations take, by position.
NameOf(i) == IF i = 0 THEN "f" ELSE IF i = 1 THEN "g" ELSE IF i = 2 THEN "h" ELSE "k"

BaseField(i) ==
  [name |-> NameOf(i), number |-> i + 1, label |-> "Optional", type |-> Some(Type.Int32),
   type_name |-> <<>>, extendee |-> None, options |-> None, proto3_optional |-> None,
   oneof_index |-> None, json_name |-> Some(NameOf(i)), default_value |-> None]

BaseExtension(i) ==
  [BaseField(i) EXCEPT !.number = 10 + i, !.extendee = Some(<<"A">>), !.json_name = None]

BaseMethod(i) ==
  [name |-> NameOf(i), input_type |-> Some(<<"A">>), output_type |-> Some(<<".", "p", "A", "B">>)]

BaseFile == [dependency |-> <<"dep.proto">>, public_dependency |-> <<>>, weak_dependency |-> <<>>]

\* References: to A, to B (in scope only inside A), to B by its absolute name, to
\* the enum, to the service, to nothing, and to nothing under A.
RefNames ==
  {<<"A">>, <<"B">>, <<".", "p", "A", "B">>, <<"E">>, <<"S">>, <<"Q">>, <<"A", "Q">>}

\* The same, and B under A, where a member of A may shadow the name of A.
ScopeNames == RefNames \cup {<<"A", "B">>}

\* A type tag with a type name: scalars, the enum, the messages, an unresolved name.
TypeChoices ==
  {<<Some(Type.Int32), <<>>>>, <<Some(Type.String), <<>>>>, <<Some(Type.Bytes), <<>>>>,
   <<None, <<"E">>>>, <<None, <<"A">>>>, <<Some(Type.Group), <<"A">>>>, <<None, <<"Q">>>>}

OptionChoices == {None, Some([packed |-> None]), Some([packed |-> Some(TRUE)]),
                  Some([packed |-> Some(FALSE)])}

NumberChoices ==
  {-1, 0, 1, 2, 3, 4, 5, 18999, 19000, 19999, 20000, 536870911, 536870912}

\* "1", "-1", "x", "X", "true", "\n", "\x4", "1.5"
DefaultTexts ==
  {<<49>>, <<45, 49>>, <<120>>, <<88>>, <<116, 114, 117, 101>>, <<92, 110>>,
   <<92, 120, 52>>, <<49, 46, 53>>}

\* The later fields of a message whose first field has a default: an integer, a
\* string or the enum, with the default "x" or "X".
LaterTypeChoices == {<<Some(Type.Int32), <<>>>>, <<Some(Type.String), <<>>>>, <<None, <<"E">>>>}

LaterDefaultTexts == {<<120>>, <<88>>}

KindVariants(base) ==
  {[base EXCEPT !.type = t, !.type_name = n] :
     t \in {None, Some(Type.Int32), Some(Type.Group), Some(Type.Message), Some(Type.Enum)},
     n \in RefNames}

PackedVariants(base) ==
  {[base EXCEPT !.label = l, !.type = c[1], !.type_name = c[2], !.options = o] :
     l \in {"Optional", "Repeated"}, c \in TypeChoices, o \in OptionChoices}

FieldDomain(fam, m, i) ==
  IF fam = "kind" THEN KindVariants(BaseField(i))
  ELSE IF fam = "scope"
  THEN {[BaseField(i) EXCEPT !.type = None, !.type_name = n] : n \in ScopeNames}
  ELSE IF fam = "oneof"
  THEN {[BaseField(i) EXCEPT !.oneof_index = o] : o \in {None, Some(-1), Some(0), Some(1)}}
  ELSE IF m # 0 THEN {BaseField(i)}
  ELSE IF fam = "scalar"
  THEN {[BaseField(i) EXCEPT !.type = t] : t \in {None} \cup {Some(n) : n \in 0..19}}
  ELSE IF fam = "packed" THEN PackedVariants(BaseField(i))
  ELSE IF fam = "presence"
  THEN {[BaseField(i) EXCEPT !.label = l, !.type = c[1], !.type_name = c[2],
                             !.proto3_optional = p, !.oneof_index = o] :
          l \in {"Optional", "Required", "Repeated"},
          c \in {<<Some(Type.Int32), <<>>>>, <<None, <<"A">>>>, <<Some(Type.Group), <<"A">>>>,
                 <<None, <<"Q">>>>},
          p \in {None, Some(TRUE)},
          o \in {None, Some(0), Some(1)}}
  ELSE IF fam = "number"
  THEN {[BaseField(i) EXCEPT !.number = n, !.extendee = e] :
          n \in NumberChoices, e \in {None, Some(<<"A">>)}}
  ELSE IF fam = "unique"
  THEN {[BaseField(i) EXCEPT !.number = n, !.name = x, !.json_name = j, !.type_name = t] :
          n \in {1, 2}, x \in {"f", "g"}, j \in {None, Some("f"), Some("g")},
          t \in {<<>>, <<"Q">>}}
  ELSE IF fam = "order"
  THEN {[BaseField(i) EXCEPT !.number = n, !.type_name = c[1], !.default_value = c[2],
                             !.oneof_index = o] :
          n \in {0, 1},
          c \in {<<<<>>, None>>, <<<<"Q">>, None>>, <<<<>>, Some(<<120>>)>>},
          o \in {None, Some(1)}}
  ELSE IF fam = "default"
  THEN {[BaseField(i) EXCEPT !.type = c[1], !.type_name = c[2], !.default_value = d] :
          c \in IF i = 0
                THEN TypeChoices \cup {<<Some(Type.Bool), <<>>>>, <<Some(Type.Double), <<>>>>,
                                       <<Some(Type.Uint32), <<>>>>}
                ELSE LaterTypeChoices,
          d \in IF i = 0 THEN {None} \cup {Some(t) : t \in DefaultTexts}
                ELSE {Some(t) : t \in LaterDefaultTexts}}
  ELSE {BaseField(i)}

ExtensionDomain(fam, parent, i) ==
  IF fam = "kind" THEN KindVariants(BaseExtension(i))
  ELSE IF parent # None /\ fam # "extension" THEN {BaseExtension(i)}
  ELSE IF fam = "packed" THEN PackedVariants(BaseExtension(i))
  ELSE IF fam = "number"
  THEN {[BaseExtension(i) EXCEPT !.number = n] : n \in NumberChoices}
  ELSE IF fam = "extension"
  THEN {[BaseExtension(i) EXCEPT !.number = n, !.extendee = e] :
          n \in {0, 10, 19000},
          e \in {None, Some(<<>>), Some(<<"A">>), Some(<<".", "p", "A", "B">>),
                 Some(<<"E">>), Some(<<"Q">>)}}
  ELSE {BaseExtension(i)}

MethodDomain(fam, i) ==
  IF fam = "method"
  THEN {[BaseMethod(i) EXCEPT !.input_type = a, !.output_type = b] :
          a, b \in {None, Some(<<"A">>), Some(<<"B">>), Some(<<".", "p", "A", "B">>),
                    Some(<<"E">>)}}
  ELSE {BaseMethod(i)}

FileDomain(fam) ==
  IF fam = "file"
  THEN {[dependency |-> d, public_dependency |-> pd, weak_dependency |-> w] :
          d \in {<<>>, <<"dep.proto">>, <<"zz.proto">>, <<"zz.proto", "dep.proto">>},
          pd \in {<<>>, <<0>>, <<1>>, <<-1>>, <<2, 0>>},
          w \in {<<>>, <<0>>, <<2>>}}
  ELSE {BaseFile}

\* The reserved and extension ranges of message A.
LayoutDomain(fam) ==
  IF fam = "number"
  THEN {[reserved_range |-> r, extension_range |-> e] :
          r \in {<<>>, <<Range(2, 4)>>, <<Range(2, 4), Range(3, 5)>>},
          e \in {<<>>, <<Range(3, 5)>>, <<Range(1, 3), Range(2, 4)>>}}
  ELSE {[reserved_range |-> <<>>, extension_range |-> <<Range(10, 20)>>]}

\* The number of fields, extensions and methods an input of the family declares.
Budget(fam) ==
  IF fam \in {"scalar", "kind", "scope", "packed", "presence", "number", "enum"}
  THEN MaxWide ELSE MaxDecls

SyntaxDomain(fam) == IF fam \in {"packed", "presence"} THEN {"Proto2", "Proto3"} ELSE {"Proto3"}

ValueChoices ==
  {[name |-> "X", number |-> 0], [name |-> "X", number |-> 1], [name |-> "Y", number |-> 1],
   [name |-> "Y", number |-> 2]}

\* The sequences over S of length 1..n.
RECURSIVE SeqsUpTo(_, _)
SeqsUpTo(S, n) ==
  IF n = 0 THEN {}
  ELSE {<<x>> : x \in S} \cup SeqsUpTo(S, n - 1)
       \cup {Append(q, x) : q \in SeqsUpTo(S, n - 1), x \in S}

\* The name of the oneof of message A: in one family it may shadow, inside A, the
\* name of A itself.
OneofDomain(fam) == IF fam = "scope" THEN {"o", "A"} ELSE {"o"}

\* The enum E: its values, allow_alias and its reserved ranges (closed).
EnumDomain(fam) ==
  IF fam = "enum"
  THEN {[value |-> v, allow_alias |-> a, reserved_range |-> r] :
          v \in SeqsUpTo(ValueChoices, MaxValues), a \in BOOLEAN,
          r \in {<<>>, <<Range(1, 1)>>, <<Range(0, 1), Range(1, 2)>>}}
  ELSE IF fam = "number"
  THEN {[value |-> <<[name |-> "X", number |-> 1]>>, allow_alias |-> FALSE,
         reserved_range |-> <<Range(0, 1), Range(1, 2), Range(2, 3)>>]}
  ELSE IF fam = "default"
  THEN {[value |-> <<[name |-> "Y", number |-> 2], [name |-> "X", number |-> 1]>>,
         allow_alias |-> FALSE, reserved_range |-> <<>>]}
  ELSE {[value |-> <<[name |-> "X", number |-> 0]>>, allow_alias |-> FALSE,
         reserved_range |-> <<>>]}

\* ------------------------------------------------- the pool before the pass
\* What the name-collection pass leaves: the files, the name table, the message
\* and enum slots; no field, extension, service or method is resolved yet.

EmptyMessage(path, full_name, name, oneofs) ==
  [id |-> Identity(FILE, path, full_name, name), fields |-> <<>>,
   field_numbers |-> EmptyMap, field_names |-> EmptyMap, field_json_names |-> EmptyMap,
   oneofs |-> oneofs, extensions |-> <<>>]

ValuePath(j) == PathE \o <<tag.enum_.VALUE, j>>

InitialNames(en, oneof) ==
  [n \in {<<"p", "A">>, <<"p", "A", "B">>, <<"p", "E">>, <<"p", "S">>, <<"p", "A", oneof>>}
         \cup {<<"p", en.value[j].name>> : j \in 1..Len(en.value)} |->
     IF n = <<"p", "A">> THEN Definition("Message", 0, FILE, PathA)
     ELSE IF n = <<"p", "A", "B">> THEN Definition("Message", 1, FILE, PathB)
     ELSE IF n = <<"p", "E">> THEN Definition("Enum", 0, FILE, PathE)
     ELSE IF n = <<"p", "S">> THEN Definition("Service", 0, FILE, PathS)
     ELSE IF n = <<"p", "A", oneof>>
     THEN Definition("Oneof", 0, FILE, PathA \o <<tag.message.ONEOF_DECL, 0>>)
     ELSE LET first == CHOOSE j \in 1..Len(en.value) :
                         /\ n = <<"p", en.value[j].name>>
                         /\ \A k \in 1..(j - 1) : n # <<"p", en.value[k].name>>
          IN  Definition("EnumValue", first - 1, FILE, ValuePath(first - 1))]

InitialPool(syntax, layout, en, oneof) ==
  [files |->
     <<[name |-> "dep.proto", syntax |-> "Proto3", dependencies |-> <<>>, raw |-> EmptyMap],
       [name |-> "a.proto", syntax |-> syntax, dependencies |-> <<>>,
        raw |-> (PathA :> layout)
                @@ (PathB :> [reserved_range |-> <<>>, extension_range |-> <<>>])
                @@ (PathE :> en)]>>,
   file_names |-> ("dep.proto" :> 0) @@ ("a.proto" :> 1),
   names |-> InitialNames(en, oneof),
   messages |-> <<EmptyMessage(PathA, <<"p", "A">>, "A", <<[fields |-> <<>>]>>),
                  EmptyMessage(PathB, <<"p", "A", "B">>, "B", <<>>)>>,
   enums |->
     <<[id |-> Identity(FILE, PathE, <<"p", "E">>, "E"),
        values |-> [j \in 1..Len(en.value) |->
                      [id |-> Identity(FILE, ValuePath(j - 1), <<"p", en.value[j].name>>,
                                       en.value[j].name),
                       number |-> en.value[j].number]],
        allow_alias |-> en.allow_alias,
        value_numbers |-> <<>>,
        value_names |-> EmptyMap]>>,
   services |-> <<>>,
   extensions |-> <<>>]

Init ==
  /\ family \in Families
  /\ \E syntax \in SyntaxDomain(family), layout \in LayoutDomain(family),
        en \in EnumDomain(family), oneof \in OneofDomain(family) :
       pool = InitialPool(syntax, layout, en, oneof)
  /\ errors = <<>>
  /\ input = EmptyMap
  /\ context = [phase |-> "start", fields |-> <<0, 0>>, extension |-> 0, service |-> 0,
                method |-> 0, value |-> 0, checked |-> TRUE]
  /\ result = None

\* ------------------------------------------------------------- the traversal
\* visit(offsets, files, visitor): file, then the messages depth first (nested
\* messages, then fields, then nested extensions), the file's enums, its services
\* and methods, its extensions.  The driver hands each declaration to its
\* callback with the declaration's path, full name, parent and index.

PhaseRank ==
  [start |-> 0, file |-> 1, fieldB |-> 2, fieldA |-> 3, nested |-> 4, value |-> 5,
   service |-> 6, method |-> 7, extension |-> 8, done |-> 9]

\* The driver may move on to `phase`: the file is visited and no later phase began.
CanVisit(phase) ==
  /\ result = None
  /\ context.phase # "start"
  /\ PhaseRank[context.phase] <= PhaseRank[phase]
  /\ PhaseRank[phase] > PhaseRank.value =>
       context.value = Len(At(pool.enums, 0).values)
  /\ PhaseRank[phase] > PhaseRank.service => context.service = 1

Declared == context.fields[1] + context.fields[2] + context.extension + context.method

\* The visitor as the callback finds it; the raw file holds the declaration.
Self(path, decl) ==
  [pool    |-> [pool EXCEPT !.files[FILE + 1].raw = @ @@ (path :> decl)],
   errors  |-> errors,
   panic   |-> FALSE,
   checked |-> context.checked]

\* The callback returned `s`, or panicked.
Returned(s, path, decl, ctx) ==
  /\ input' = input @@ (path :> decl)
  /\ UNCHANGED family
  /\ IF s.panic
     THEN /\ result' = Some(Panic)
          /\ context' = [context EXCEPT !.phase = "done"]
          /\ UNCHANGED <<pool, errors>>
     ELSE /\ pool' = s.pool
          /\ errors' = s.errors
          /\ context' = ctx
          /\ UNCHANGED result

VisitFile ==
  /\ context.phase = "start"
  /\ result = None
  /\ \E file \in FileDomain(family) :
       Returned(visit_file(Self(<<>>, file), <<>>, FILE, file), <<>>, file,
                [context EXCEPT !.phase = "file"])

VisitField(m) ==
  /\ CanVisit(IF m = 0 THEN "fieldA" ELSE "fieldB")
  /\ Declared < Budget(family)
  /\ LET msg   == At(pool.messages, m)
         index == context.fields[m + 1]
         path  == msg.id.path \o <<tag.message.FIELD, index>>
     IN  \E field \in FieldDomain(family, m, index) :
           Returned(visit_field(Self(path, field), path, msg.id.full_name \o <<field.name>>,
                                FILE, m, index, field),
                    path, field,
                    [context EXCEPT !.phase = IF m = 0 THEN "fieldA" ELSE "fieldB",
                                    !.fields[m + 1] = @ + 1])

VisitExtension(parent) ==
  /\ CanVisit(IF parent = None THEN "extension" ELSE "nested")
  /\ Declared < Budget(family)
  /\ LET index == context.extension
         path  == IF parent = None THEN <<tag.file.EXTENSION, index>>
                  ELSE PathA \o <<tag.message.EXTENSION, index>>
         scope == IF parent = None THEN <<"p">> ELSE <<"p", "A">>
     IN  \E extension \in ExtensionDomain(family, parent, index) :
           Returned(visit_extension(Self(path, extension), path, scope \o <<extension.name>>,
                                    FILE, parent, index, extension),
                    path, extension,
                    [context EXCEPT !.phase = IF parent = None THEN "extension" ELSE "nested",
                                    !.extension = @ + 1])

VisitEnumValue ==
  /\ CanVisit("value")
  /\ context.value < Len(At(pool.enums, 0).values)
  /\ LET index == context.value
         path  == ValuePath(index)
         value == find_proto(At(pool.files, FILE).raw, PathE).value[index + 1]
     IN  \E found \in binary_search(At(pool.enums, 0).value_numbers, value.number) :
           Returned(visit_enum_value(Self(path, value), path, <<"p", value.name>>, FILE, 0,
                                     index, value, found),
                    path, value,
                    [context EXCEPT !.phase = "value", !.value = @ + 1])

VisitService ==
  /\ CanVisit("service")
  /\ context.service = 0
  /\ LET service == [name |-> "S"] IN
       Returned(visit_service(Self(PathS, service), PathS, <<"p", "S">>, FILE,
                              context.service, service),
                PathS, service,
                [context EXCEPT !.phase = "service", !.service = @ + 1])

VisitMethod ==
  /\ CanVisit("method")
  /\ context.service = 1
  /\ Declared < Budget(family)
  /\ LET index == context.method
         path  == PathS \o <<tag.service.METHOD, index>>
     IN  \E method \in MethodDomain(family, index) :
           Returned(visit_method(Self(path, method), path, <<"p", "S", method.name>>, FILE, 0,
                                 index, method),
                    path, method,
                    [context EXCEPT !.phase = "method", !.method = @ + 1])

\* The traversal is over: resolve_names returns.
Finish ==
  /\ CanVisit("done")
  /\ result' = Some(resolve_names_result(errors))
  /\ context' = [context EXCEPT !.phase = "done"]
  /\ UNCHANGED <<pool, errors, input, family>>

Next ==
  \/ VisitFile
  \/ \E m \in {0, 1} : VisitField(m)
  \/ \E parent \in {None, Some(0)} : VisitExtension(parent)
  \/ VisitEnumValue
  \/ VisitService
  \/ VisitMethod
  \/ Finish

Spec == Init /\ [][Next]_vars

\* ------------------------------------------------ the escape decoder, called
\* unescape_c_escape_string called on a text of its own, as its unit test calls
\* it, in a build with or without overflow checks.

\* The characters of the texts, as their UTF-8 bytes: the backslash, 'x', '7',
\* '8', '+', 'n' and the two-byte U+00E9.
Chars == {<<92>>, <<120>>, <<55>>, <<56>>, <<43>>, <<110>>, <<195, 169>>}

\* The texts of at most n of these characters.
RECURSIVE TextsUpTo(_)
TextsUpTo(n) ==
  IF n = 0 THEN {<<>>}
  ELSE TextsUpTo(n - 1) \cup {t \o c : t \in TextsUpTo(n - 1), c \in Chars}

\* Every backslash followed by one ASCII byte, and the hex escapes of both cases.
EscapePairs ==
  {<<92, c>> : c \in 0..127} \cup {<<92, x, 55, d>> : x \in {120, 88}, d \in {65, 70, 71, 97, 102, 103}}

Texts == TextsUpTo(MaxText) \cup EscapePairs

UnescapeInit ==
  /\ family = "unescape"
  /\ pool = EmptyMap
  /\ errors = <<>>
  /\ input \in {(<<>> :> t) : t \in Texts}
  /\ context \in {[phase |-> "start", checked |-> c] : c \in BOOLEAN}
  /\ result = None

\* One call of each copy of the decoder on the text: the outcome of the copy of
\* build/resolve.rs in `result`, that of the copy of descriptor/ty in `pool.ty`.
Unescape ==
  /\ context.phase = "start"
  /\ result' = Some(unescape_c_escape_string(input[<<>>], context.checked))
  /\ pool' = [ty |-> ty_unescape_loop(input[<<>>], 0, <<>>, context.checked)]
  /\ context' = [context EXCEPT !.phase = "done"]
  /\ UNCHANGED <<errors, input, family>>

UnescapeSpec == UnescapeInit /\ [][Unescape]_vars

\* ------------------------------------------------------------- the type map
\* TypeMap::add_files, the builder of descriptor/ty.  Type names are the
\* sequences of their segments after a leading "."; `pool` holds the TypeMap.

MAP_ENTRY_KEY_TAG == 1

MAP_ENTRY_VALUE_TAG == 2

\* ty::Type
TypeMessage(message) == [tag |-> "Message", message |-> message]

TypeEnum(enum_ty) == [tag |-> "Enum", enum_ty |-> enum_ty]

TypeScalar(scalar) == [tag |-> "Scalar", scalar |-> scalar]

\* TyProto
TyProtoMessage(message_proto, syntax) ==
  [tag |-> "Message", message_proto |-> message_proto, syntax |-> syntax]

TyProtoEnum(enum_proto) == [tag |-> "Enum", enum_proto |-> enum_proto]

\* TypeMap: the named types in an arena, the scalars by themselves (index -1).
TypeMap_new == [tys |-> <<>>, names |-> EmptyMap]

try_get_by_name(self, name) == MapGet(self.names, name)

get_scalar(scalar) == [index |-> -1, scalar |-> scalar]

add_with_name(self, name, ty) ==
  [self  |-> [tys |-> Append(self.tys, ty),
              names |-> MapInsert(self.names, name, [index |-> Len(self.tys), scalar |-> ""])],
   value |-> [index |-> Len(self.tys), scalar |-> ""]]

\* self[id]
Index(self, id) == IF id.index = -1 THEN TypeScalar(id.scalar) ELSE At(self.tys, id.index)

Scalar_is_packable(scalar) == scalar \notin {"String", "Bytes"}

Type_is_packable(ty) ==
  IF ty.tag = "Scalar" THEN Scalar_is_packable(ty.scalar) ELSE ty.tag = "Enum"

\* MessageOptions::map_entry()
map_entry_of(options) == UnwrapOr(options.map_entry, FALSE)

\* Lines 276-303.
add_enum(self, name, enum_proto) ==
  IF try_get_by_name(self, name) # None
  THEN [self |-> self, result |-> Ok(Unwrap(try_get_by_name(self, name)))]
  ELSE IF enum_proto.value = <<>>
  THEN [self |-> self, result |-> Err("empty_enum")]
  ELSE [self   |-> add_with_name(self, name,
                                 TypeEnum([name |-> name, values |-> enum_proto.value])).self,
        result |-> Ok([index |-> Len(self.tys), scalar |-> ""])]

\* Lines 151-195: the default of a field of type ty, a Result.
default_value_of(ty, value, checked) ==
  IF ty.tag = "Scalar" /\ ty.scalar = "Bytes"
  THEN IF ty_unescape_loop(value, 0, <<>>, checked).tag = "Ok"
       THEN Ok(Value("Bytes", ty_unescape_loop(value, 0, <<>>, checked).value))
       ELSE ty_unescape_loop(value, 0, <<>>, checked)
  ELSE IF ty.tag = "Scalar" THEN parse_simple_value([k |-> ty.scalar], value, checked)
  ELSE IF ty.tag = "Enum"
  THEN LET ok == {i \in 1..Len(ty.enum_ty.values) : utf8[ty.enum_ty.values[i].name] = value} IN
       IF ok = {} THEN Err("parse")
       ELSE Ok(Value("EnumNumber",
                     ty.enum_ty.values[CHOOSE i \in ok : \A j \in ok : i <= j].number))
  ELSE Err("parse")

\* Lines 122-208, after add_message_field returned `t`: the (tag, field) pair of
\* one field, or the error.  The inputs number their fields from 1, so that
\* `number() as u32` is the number.
message_field(t, name, field_proto, syntax, checked) ==
  IF t.result.tag # "Ok" THEN t
  ELSE IF field_proto.default_value # None
          /\ default_value_of(Index(t.self, t.result.value),
                              Unwrap(field_proto.default_value), checked).tag = "Panic"
  THEN [self |-> t.self, result |-> Panic]
  ELSE IF field_proto.default_value # None
          /\ default_value_of(Index(t.self, t.result.value),
                              Unwrap(field_proto.default_value), checked).tag = "Err"
  THEN [self |-> t.self, result |-> Err("invalid_default_value")]
  ELSE [self |-> t.self,
        result |->
          Ok(<<field_proto.number,
               [name |-> field_proto.name,
                json_name |-> json_name_of(field_proto),
                is_group |-> type_of(field_proto) = "Group",
                cardinality |-> field_proto.label,
                is_packed |->
                  /\ Type_is_packable(Index(t.self, t.result.value))
                  /\ IF field_proto.options = None THEN syntax = "Proto3"
                     ELSE packed_of(Unwrap(field_proto.options)),
                supports_presence |->
                  \/ proto3_optional_of(field_proto)
                  \/ field_proto.oneof_index # None
                  \/ /\ field_proto.label = "Optional"
                     /\ (type_of(field_proto) = "Message" \/ syntax = "Proto2"),
                default_value |->
                  IF field_proto.default_value = None THEN None
                  ELSE Some(default_value_of(Index(t.self, t.result.value),
                                             Unwrap(field_proto.default_value),
                                             checked).value),
                ty |-> t.result.value]>>)]

RECURSIVE add_message(_, _, _, _, _, _)
RECURSIVE add_message_fields(_, _, _, _, _, _, _, _)

\* Lines 234-274.
add_message_field(self, field_proto, protos, checked) ==
  IF type_of(field_proto) \in ScalarTypes
  THEN [self |-> self, result |-> Ok(get_scalar(type_of(field_proto)))]
  ELSE IF field_proto.type_name \notin DOMAIN protos
  THEN [self |-> self, result |-> Err("type_not_found")]
  ELSE IF protos[field_proto.type_name].tag = "Message"
  THEN add_message(self, field_proto.type_name, protos[field_proto.type_name].message_proto,
                   protos[field_proto.type_name].syntax, protos, checked)
  ELSE add_enum(self, field_proto.type_name, protos[field_proto.type_name].enum_proto)

\* Lines 119-209, one turn of `.map(...).collect::<Result<BTreeMap<_, _>, _>>()`
\* after the closure returned `r`: the first error ends it, a later field of the
\* same number replaces the earlier one.
collect_field(r, name, field, i, fields, syntax, protos, checked) ==
  IF r.result.tag # "Ok" THEN r
  ELSE add_message_fields(r.self, name, field, i + 1,
                          MapInsert(fields, r.result.value[1], r.result.value[2]),
                          syntax, protos, checked)

add_message_fields(self, name, field, i, fields, syntax, protos, checked) ==
  IF i > Len(field) THEN [self |-> self, result |-> Ok(fields)]
  ELSE collect_field(
         message_field(add_message_field(self, field[i], protos, checked), name, field[i],
                       syntax, checked),
         name, field, i, fields, syntax, protos, checked)

\* Lines 211-231, given the collected fields `f`: the map-entry check and the
\* store of the message over its placeholder.  field_names is collected from the
\* fields in ascending number: a name declared under several numbers keeps the
\* greatest.
add_message_store(f, id, name, is_map_entry) ==
  IF f.result.tag # "Ok" THEN f
  ELSE IF is_map_entry
          /\ (MAP_ENTRY_KEY_TAG \notin DOMAIN f.result.value
              \/ MAP_ENTRY_VALUE_TAG \notin DOMAIN f.result.value)
  THEN [self |-> f.self, result |-> Err("invalid_map_entry")]
  ELSE [self |-> [f.self EXCEPT !.tys[id.index + 1] =
                    TypeMessage([name |-> name, is_map_entry |-> is_map_entry,
                                 fields |-> f.result.value,
                                 field_names |->
                                   [n \in {f.result.value[k].name : k \in DOMAIN f.result.value}
                                      |-> CHOOSE k \in DOMAIN f.result.value :
                                            /\ f.result.value[k].name = n
                                            /\ \A j \in DOMAIN f.result.value :
                                                 f.result.value[j].name = n => j <= k]])],
        result |-> Ok(id)]

\* An add_message that answers a request for a registered name with the first id
\* of the arena.
add_message_first_id(self, name, message_proto, syntax, protos, checked) ==
  IF try_get_by_name(self, name) # None
  THEN [self |-> self, result |-> Ok([index |-> 0, scalar |-> ""])]
  ELSE add_message_store(
         add_message_fields(
           add_with_name(self, name,
                         TypeMessage([name |-> "", is_map_entry |->
                                        IF message_proto.options = None THEN FALSE
                                        ELSE map_entry_of(Unwrap(message_proto.options)),
                                      fields |-> EmptyMap, field_names |-> EmptyMap])).self,
           name, message_proto.field, 1, EmptyMap, syntax, protos, checked),
         [index |-> Len(self.tys), scalar |-> ""], name,
         IF message_proto.options = None THEN FALSE
         ELSE map_entry_of(Unwrap(message_proto.options)))

\* Lines 96-232.
add_message(self, name, message_proto, syntax, protos, checked) ==
  IF try_get_by_name(self, name) # None
  THEN [self |-> self, result |-> Ok(Unwrap(try_get_by_name(self, name)))]
  ELSE add_message_store(
         add_message_fields(
           add_with_name(self, name,
                         TypeMessage([name |-> "", is_map_entry |->
                                        IF message_proto.options = None THEN FALSE
                                        ELSE map_entry_of(Unwrap(message_proto.options)),
                                      fields |-> EmptyMap, field_names |-> EmptyMap])).self,
           name, message_proto.field, 1, EmptyMap, syntax, protos, checked),
         [index |-> Len(self.tys), scalar |-> ""], name,
         IF message_proto.options = None THEN FALSE
         ELSE map_entry_of(Unwrap(message_proto.options)))

\* result.insert(full_name, proto).is_some() => type_already_exists
insert_ty(r, full_name, proto) ==
  IF r.tag # "Ok" THEN r
  ELSE IF full_name \in DOMAIN r.value THEN Err("type_already_exists")
  ELSE Ok(MapInsert(r.value, full_name, proto))

RECURSIVE insert_enums(_, _, _, _)
\* The `for enum_proto in ...enum_type` loops of iter_tys and iter_message.
insert_enums(r, namespace, enum_type, i) ==
  IF i > Len(enum_type) THEN r
  ELSE insert_enums(insert_ty(r, namespace \o <<enum_type[i].name>>, TyProtoEnum(enum_type[i])),
                    namespace, enum_type, i + 1)

RECURSIVE insert_messages(_, _, _, _, _)
\* Lines 412-447 and 382-396: each message after its nested messages and enums.
insert_messages(r, namespace, message_type, syntax, i) ==
  IF i > Len(message_type) THEN r
  ELSE insert_messages(
         insert_ty(
           insert_enums(
             insert_messages(r, namespace \o <<message_type[i].name>>,
                             message_type[i].nested_type, syntax, 1),
             namespace \o <<message_type[i].name>>, message_type[i].enum_type, 1),
           namespace \o <<message_type[i].name>>,
           TyProtoMessage(message_type[i], syntax)),
         namespace, message_type, syntax, i + 1)

\* Lines 367-410, for the one file of the set.
iter_tys(raw) ==
  LET file == raw.file[1] IN
  IF file.syntax \notin {None, Some("proto2"), Some("proto3")} THEN Err("unknown_syntax")
  ELSE insert_enums(
         insert_messages(Ok(EmptyMap),
                         IF file.package = "" THEN <<".">> ELSE <<".", file.package>>,
                         file.message_type,
                         IF file.syntax = Some("proto3") THEN "Proto3" ELSE "Proto2", 1),
         IF file.package = "" THEN <<".">> ELSE <<".", file.package>>,
         file.enum_type, 1)

\* One turn of the loop of add_files after the call returned `r`.
RECURSIVE add_files_loop(_, _, _, _, _)
add_files_next(r, protos, order, i, checked) ==
  IF r.result.tag # "Ok" THEN r ELSE add_files_loop(r.self, protos, order, i + 1, checked)

\* Lines 79-91: `for (name, proto) in &protos`, in the order the HashMap yields.
add_files_loop(self, protos, order, i, checked) ==
  IF i > Len(order) THEN [self |-> self, result |-> Ok(<<>>)]
  ELSE add_files_next(
         IF protos[order[i]].tag = "Message"
         THEN add_message(self, order[i], protos[order[i]].message_proto,
                          protos[order[i]].syntax, protos, checked)
         ELSE add_enum(self, order[i], protos[order[i]].enum_proto),
         protos, order, i, checked)

\* Lines 76-94.
add_files(self, raw, order, checked) ==
  IF iter_tys(raw).tag # "Ok" THEN [self |-> self, result |-> iter_tys(raw)]
  ELSE add_files_loop(self, iter_tys(raw).value, order, 1, checked)

\* The orders in which a HashMap of these keys may be iterated.
Orders(keys) ==
  {o \in [1..Cardinality(keys) -> keys] : \A i, j \in 1..Cardinality(keys) : o[i] = o[j] => i = j}

\* ----- the file sets handed to add_files: package p, message M, enum E.

NameM == <<".", "p", "M">>

NameE == <<".", "p", "E">>

NameN == <<".", "p", "M", "N">>

NameO == <<".", "p", "M", "O">>

OldField(number) ==
  [name |-> NameOf(number - 1), number |-> number, label |-> "Optional",
   type |-> Some(Type.Int32), type_name |-> <<>>, options |-> None, proto3_optional |-> None,
   oneof_index |-> None, json_name |-> None, default_value |-> None]

\* A field of message type `type_name`.
OldReference(number, type_name) ==
  [OldField(number) EXCEPT !.type = Some(Type.Message), !.type_name = type_name]

\* The fields of M: up to MaxFields of them numbered 1..MaxFields in any order,
\* or one field whose flags, or whose type and default, vary, or up to two
\* references to M and the messages nested in it.
OldFieldsDomain(fam) ==
  IF fam = "cycle"
  THEN {<<>>} \cup {<<OldReference(1, a)>> : a \in {NameM, NameN, NameO}}
       \cup {<<OldReference(1, a), OldReference(2, b)>> : a, b \in {NameM, NameN, NameO}}
  ELSE IF fam = "map_entry"
  THEN {<<>>} \cup {[i \in 1..Len(q) |-> OldField(q[i])] : q \in SeqsUpTo(1..MaxFields, MaxFields)}
  ELSE IF fam = "flags"
  THEN {<<[OldField(1) EXCEPT !.label = l, !.type = c[1], !.type_name = c[2], !.options = o,
                              !.proto3_optional = p, !.oneof_index = x]>> :
          l \in {"Optional", "Required", "Repeated"},
          c \in {<<Some(Type.Int32), <<>>>>, <<Some(Type.String), <<>>>>,
                 <<Some(Type.Message), NameM>>, <<Some(Type.Enum), NameE>>,
                 <<Some(Type.Group), NameM>>},
          o \in OptionChoices, p \in {None, Some(TRUE)}, x \in {None, Some(0)}}
  ELSE {<<[OldField(1) EXCEPT !.type = t, !.type_name = n, !.default_value = d]>> :
          t \in {None, Some(Type.Int32), Some(Type.Bytes), Some(Type.Message), Some(Type.Enum),
                 Some(Type.Group)},
          n \in {<<>>, NameM, NameN, NameE, <<".", "p", "Q">>},
          d \in {None, Some(<<49>>), Some(<<88>>), Some(<<92, 120, 49>>)}}

\* The file sets of a family: the map_entry option of M varies with its field
\* numbers; the syntax with the flags; the syntax (proto4 is unknown) and the
\* enums of the file (E with a value, without one, an enum named like M) with
\* the types; the messages N and O nested in M may refer to M and to each other
\* with the cycles.
FileSets(fam) ==
  {[file |-> <<[syntax |-> s, package |-> "p",
                message_type |->
                  <<[name |-> "M", field |-> f, options |-> o, enum_type |-> <<>>,
                     nested_type |->
                       [i \in 1..Len(n) |->
                          [name |-> IF i = 1 THEN "N" ELSE "O", field |-> n[i],
                           options |-> None, enum_type |-> <<>>, nested_type |-> <<>>]]]>>,
                enum_type |-> e]>>] :
     n \in IF fam = "cycle"
           THEN {<<a, b>> : a, b \in {<<>>} \cup {<<OldReference(1, c)>> :
                                                   c \in {NameM, NameN, NameO}}}
           ELSE {<<<<>>>>},
     s \in IF fam = "flags" THEN {None, Some("proto3")}
           ELSE IF fam = "types" THEN {Some("proto2"), Some("proto4")}
           ELSE {Some("proto3")},
     f \in OldFieldsDomain(fam),
     o \in IF fam = "map_entry"
           THEN {None, Some([map_entry |-> None]), Some([map_entry |-> Some(FALSE)]),
                 Some([map_entry |-> Some(TRUE)])}
           ELSE {None},
     e \in IF fam = "types"
           THEN {<<[name |-> "E", value |-> <<[name |-> "X", number |-> 1]>>]>>,
                 <<[name |-> "E", value |-> <<>>]>>,
                 <<[name |-> "M", value |-> <<[name |-> "X", number |-> 1]>>]>>}
           ELSE {<<[name |-> "E", value |-> <<[name |-> "X", number |-> 1]>>]>>}}

TypeMapInit ==
  /\ family \in {"map_entry", "flags", "types", "cycle"}
  /\ pool = TypeMap_new
  /\ errors = <<>>
  /\ input \in {(<<>> :> raw) : raw \in FileSets(family)}
  /\ context = [phase |-> "start", checked |-> TRUE]
  /\ result = None

AddFiles ==
  /\ context.phase = "start"
  /\ \E order \in IF iter_tys(input[<<>>]).tag = "Ok"
                   THEN Orders(DOMAIN iter_tys(input[<<>>]).value) ELSE {<<>>} :
       /\ pool' = add_files(pool, input[<<>>], order, context.checked).self
       /\ result' = Some(add_files(pool, input[<<>>], order, context.checked).result)
  /\ context' = [context EXCEPT !.phase = "done"]
  /\ UNCHANGED <<errors, input, family>>

TypeMapSpec == TypeMapInit /\ [][AddFiles]_vars

\* ------------------------------------------------------------- the properties
\* What the pass promises, over the states the traversal reaches.

Messages == {0, 1}

\* The resolved fields of message m.
Fields(m) == At(pool.messages, m).fields

\* The raw message of handle m in the file being resolved.
MessageProto(m) == find_proto(At(pool.files, FILE).raw, At(pool.messages, m).id.path)

\* The syntax of the file being resolved.
Syntax == At(pool.files, FILE).syntax

\* A pass that has returned Ok.
Succeeded == result # None /\ Unwrap(result).tag = "Ok"

\* The errors (by position) of one kind whose `found` label lies under path p.
ErrorsAt(kind, p) ==
  {i \in 1..Len(errors) :
     /\ errors[i].kind = kind
     /\ Len(errors[i].found) >= Len(p)
     /\ SubSeq(errors[i].found, 1, Len(p)) = p}

\* The errors of the resolution of the kind of the declaration at path p.
KindErrors(p) ==
  {i \in 1..Len(errors) :
     errors[i].found \in {p \o <<tag.field.TYPE>>, p \o <<tag.field.TYPE_NAME>>}}

\* The declarations handed out that own an arena slot: all but the file and the
\* enum values.
DeclPaths == {p \in DOMAIN input : p # <<>> /\ p[1] # tag.file.ENUM_TYPE}

\* The paths of the descriptors the arenas hold.
ArenaPaths ==
  UNION {{Fields(m)[i].id.path : i \in 1..Len(Fields(m))} : m \in Messages}
  \cup {pool.extensions[i].id.path : i \in 1..Len(pool.extensions)}
  \cup {pool.services[i].id.path : i \in 1..Len(pool.services)}
  \cup UNION {{pool.services[i].methods[j].id.path : j \in 1..Len(pool.services[i].methods)} :
                i \in 1..Len(pool.services)}

\* The number of descriptors the arenas hold.
ArenaSize ==
  Len(Fields(0)) + Len(Fields(1)) + Len(pool.extensions) + Len(pool.services)
  + (IF pool.services = <<>> THEN 0 ELSE Len(pool.services[1].methods))

\* A u32 that is the handle of a message of the pool.
IsMessageHandle(h) == h[1] = 0 /\ h[2] < Len(pool.messages)

\* The kind a declaration is to have, by cases on its type name and type tag: the
\* kind (None on a failure) and the kind of the error of the failure.
ClaimedKind(decl, scope) ==
  LET hit == resolve_name(pool.names, scope, decl.type_name)
      ty  == IF decl.type = None THEN None ELSE Type_from_i32(Unwrap(decl.type))
  IN  IF decl.type_name # <<>>
      THEN IF hit = None THEN [kind |-> None, error |-> "NameNotFound"]
           ELSE IF Unwrap(hit).def.kind = "Message"
           THEN [kind  |-> Some(IF decl.type = Some(Type.Group)
                                THEN KindGroup(Unwrap(hit).def.idx)
                                ELSE KindMessage(Unwrap(hit).def.idx)),
                 error |-> ""]
           ELSE IF Unwrap(hit).def.kind = "Enum"
           THEN [kind |-> Some(KindEnum(Unwrap(hit).def.idx)), error |-> ""]
           ELSE [kind |-> None, error |-> "InvalidType"]
      ELSE IF ty # None /\ Unwrap(ty) \in ScalarTypes
           THEN [kind |-> Some(Scalar(Unwrap(ty))), error |-> ""]
           ELSE [kind |-> None, error |-> "MissingRequiredField"]

\* ---- C1

\* C1: errors are only ever appended, and resolve_names returns Ok exactly when
\* no error was recorded during the traversal, and otherwise Err with every
\* recorded error in the order of recording.
C1_ResultCarriesEveryError ==
  [][/\ Len(errors') >= Len(errors)
     /\ SubSeq(errors', 1, Len(errors)) = errors
     /\ (result = None /\ result' # None /\ Unwrap(result').tag # "Panic") =>
          /\ errors' = errors
          /\ Unwrap(result').tag \in {"Ok", "Err"}
          /\ (Unwrap(result').tag = "Ok") <=> (errors = <<>>)
          /\ (Unwrap(result').tag = "Err") => (Unwrap(result').value = errors)]_vars

\* A pass that returned Err with errors of several callbacks.
C1_Witness ==
  /\ result # None
  /\ Unwrap(result).tag = "Err"
  /\ Len(Unwrap(result).value) >= 2
  /\ \E i, j \in 1..Len(errors) : errors[i].kind # errors[j].kind

\* ---- C2

KindAsClaimed(x, decl) ==
  LET c  == ClaimedKind(decl, x.id.full_name)
      es == KindErrors(x.id.path)
  IN  IF c.error = ""
      THEN es = {} /\ x.kind = Unwrap(c.kind)
      ELSE /\ Cardinality(es) = 1
           /\ \A e \in es :
                /\ errors[e].kind = c.error
                /\ c.error = "InvalidType" => errors[e].what = <<"a message or enum type">>
                /\ c.error = "MissingRequiredField" =>
                     errors[e].found = x.id.path \o
                       <<IF decl.type = None \/ Type_from_i32(Unwrap(decl.type)) = None
                         THEN tag.field.TYPE ELSE tag.field.TYPE_NAME>>
           /\ x.kind = Scalar("Double")

\* C3: the kind of every resolved field and extension is the one of the claimed
\* case (Group, Message, Enum, the scalar of the tag), with no error of kind
\* resolution, or else resolution failed with exactly one error: InvalidType,
\* NameNotFound or MissingRequiredField as the case has it.
C3_KindResolution ==
  /\ \A m \in Messages : \A i \in 1..Len(Fields(m)) :
       KindAsClaimed(Fields(m)[i], input[Fields(m)[i].id.path])
  /\ \A i \in 1..Len(pool.extensions) :
       KindAsClaimed(pool.extensions[i], input[pool.extensions[i].id.path])

\* A field declared GROUP whose type name resolved to a message.
C3_Witness ==
  \E i \in 1..Len(Fields(0)) :
    /\ Fields(0)[i].kind.k = "Group"
    /\ input[Fields(0)[i].id.path].type = Some(Type.Group)
    /\ input[Fields(0)[i].id.path].type_name # <<>>
    /\ KindErrors(Fields(0)[i].id.path) = {}

\* ---- C4

\* options.packed is explicitly true.
PackedSet(decl) == decl.options # None /\ Unwrap(decl.options).packed = Some(TRUE)

\* options.packed is unset: no options message, or one that does not set packed.
PackedUnset(decl) == decl.options = None \/ Unwrap(decl.options).packed = None

PackedAsClaimed(x, decl) ==
  KindErrors(x.id.path) = {} =>
    (x.is_packed <=> /\ x.cardinality = "Repeated"
                     /\ is_packable(x.kind)
                     /\ (PackedSet(decl) \/ (PackedUnset(decl) /\ Syntax = "Proto3")))

\* C4: every resolved field and extension is packed exactly when it is repeated,
\* its kind is packable, and options.packed is true or is unset in a Proto3 file
\* (an options message that does not set packed counts as unset).
C4_PackedAsClaimed ==
  /\ \A m \in Messages : \A i \in 1..Len(Fields(m)) :
       PackedAsClaimed(Fields(m)[i], input[Fields(m)[i].id.path])
  /\ \A i \in 1..Len(pool.extensions) :
       PackedAsClaimed(pool.extensions[i], input[pool.extensions[i].id.path])

\* ---- C5

\* The third case of presence: not repeated, and a message kind or a Proto2 file.
PresenceByKind(x) ==
  x.cardinality # "Repeated" /\ (is_message(x.kind) \/ Syntax = "Proto2")

\* C5 as first stated: a resolved field supports presence exactly when it is
\* proto3_optional, or is recorded as a member of a oneof, or is not repeated
\* and of a message kind or in a Proto2 file.
C5_PresenceByRecordedOneof ==
  \A m \in Messages : \A i \in 1..Len(Fields(m)) :
    LET x == Fields(m)[i]  decl == input[x.id.path] IN
    x.supports_presence <=>
      (proto3_optional_of(decl) \/ x.oneof # None \/ PresenceByKind(x))

\* C5: a resolved field supports presence exactly when it is proto3_optional, or
\* its declaration sets oneof_index (valid or not), or it is not repeated and of
\* a message or group kind or in a Proto2 file; in a pass that succeeds the
\* declaration sets oneof_index exactly when the field is recorded in a oneof.
C5_PresenceByOneofIndex ==
  \A m \in Messages : \A i \in 1..Len(Fields(m)) :
    LET x == Fields(m)[i]  decl == input[x.id.path] IN
    /\ x.supports_presence <=>
         (proto3_optional_of(decl) \/ decl.oneof_index # None \/ PresenceByKind(x))
    /\ Succeeded => (decl.oneof_index # None <=> x.oneof # None)
    /\ x.oneof # None => decl.oneof_index = x.oneof

\* A repeated Proto3 field with an invalid oneof_index: in no oneof, with presence.
C5_Witness ==
  \E i \in 1..Len(Fields(0)) :
    LET x == Fields(0)[i]  decl == input[x.id.path] IN
    /\ decl.oneof_index # None
    /\ x.oneof = None
    /\ x.cardinality = "Repeated"
    /\ Syntax = "Proto3"
    /\ ~proto3_optional_of(decl)
    /\ x.supports_presence

\* ---- C6

\* A number outside [1, 536870911] or inside [19000, 19999].
InvalidNumber(n) == n < 1 \/ n > 536870911 \/ (n >= 19000 /\ n <= 19999)

\* C6: every message field and extension handed to the pass whose number is
\* invalid has an InvalidFieldNumber error, whatever else it produces.
C6_InvalidNumberReported ==
  /\ \A m \in Messages : \A i \in 1..Len(Fields(m)) :
       InvalidNumber(input[Fields(m)[i].id.path].number) =>
         ErrorsAt("InvalidFieldNumber", Fields(m)[i].id.path) # {}
  /\ \A i \in 1..Len(pool.extensions) :
       InvalidNumber(input[pool.extensions[i].id.path].number) =>
         ErrorsAt("InvalidFieldNumber", pool.extensions[i].id.path) # {}

\* ---- C7

\* The reserved ranges (by position) that hold n, the end included or not.
Holding(rr, n, closed) ==
  {j \in 1..Len(rr) : rr[j].start <= n /\ (IF closed THEN n <= rr[j].end ELSE n < rr[j].end)}

\* The errors of `kind` under path p are one per range of rr holding n, each
\* citing its range at `base`.
OnePerRange(kind, p, rr, n, closed, base) ==
  /\ Cardinality(ErrorsAt(kind, p)) = Cardinality(Holding(rr, n, closed))
  /\ \A j \in Holding(rr, n, closed) :
       \E e \in ErrorsAt(kind, p) :
         errors[e].other = base \o <<j - 1>> /\ errors[e].range = Some(rr[j])

\* C7: a field has one FieldNumberInReservedRange per reserved range of its
\* message with start <= N < end, an enum value one EnumNumberInReservedRange
\* per reserved range of its enum with start <= n <= end, and no other.
C7_ReservedRanges ==
  /\ \A m \in Messages : \A i \in 1..Len(Fields(m)) :
       LET x == Fields(m)[i] IN
       OnePerRange("FieldNumberInReservedRange", x.id.path, MessageProto(m).reserved_range,
                   input[x.id.path].number, FALSE,
                   At(pool.messages, m).id.path \o <<tag.message.RESERVED_RANGE>>)
  /\ \A j \in 1..context.value :
       LET e == find_proto(At(pool.files, FILE).raw, PathE) IN
       OnePerRange("EnumNumberInReservedRange", ValuePath(j - 1), e.reserved_range,
                   e.value[j].number, TRUE, PathE \o <<tag.enum_.RESERVED_RANGE>>)

\* A field whose number is the end of one reserved range and inside another, and
\* an enum value whose number is the end of one range and the start of another.
C7_Witness ==
  /\ \E i \in 1..Len(Fields(0)) :
       LET n == input[Fields(0)[i].id.path].number  rr == MessageProto(0).reserved_range IN
       /\ \E j \in 1..Len(rr) : rr[j].end = n
       /\ Cardinality(ErrorsAt("FieldNumberInReservedRange", Fields(0)[i].id.path)) = 1
  /\ context.value >= 1
  /\ LET e == find_proto(At(pool.files, FILE).raw, PathE) IN
       /\ \E j \in 1..Len(e.reserved_range) : e.reserved_range[j].end = e.value[1].number
       /\ Cardinality(ErrorsAt("EnumNumberInReservedRange", ValuePath(0))) = 2

\* ---- C8

\* The extension ranges (by position) of message m that hold n.
InExtensionRange(m, n) ==
  {j \in 1..Len(MessageProto(m).extension_range) :
     MessageProto(m).extension_range[j].start <= n
     /\ n < MessageProto(m).extension_range[j].end}

\* C8: a message field declared without extendee has exactly one
\* FieldNumberInExtensionRange, citing the first such range, when its number is
\* in an extension range of its message, and none otherwise; an extension whose
\* extendee resolved has exactly one ExtensionNumberOutOfRange when its number
\* is in no extension range of the extendee, and none otherwise; neither has
\* the other's error.
C8_ExtensionRanges ==
  /\ \A m \in Messages : \A i \in 1..Len(Fields(m)) :
       LET x == Fields(m)[i]
           n == input[x.id.path].number
           inr == InExtensionRange(m, n)
           es == ErrorsAt("FieldNumberInExtensionRange", x.id.path)
       IN  input[x.id.path].extendee = None =>
             /\ ErrorsAt("ExtensionNumberOutOfRange", x.id.path) = {}
             /\ Cardinality(es) = (IF inr = {} THEN 0 ELSE 1)
             /\ \A e \in es : \E j \in inr :
                  /\ \A k \in inr : j <= k
                  /\ errors[e].other =
                       At(pool.messages, m).id.path \o <<tag.message.EXTENSION_RANGE, j - 1>>
                  /\ errors[e].range = Some(MessageProto(m).extension_range[j])
  /\ \A i \in 1..Len(pool.extensions) :
       LET x == pool.extensions[i]
           n == input[x.id.path].number
       IN  x.extendee # MessageIndex_MAX =>
             /\ IsMessageHandle(x.extendee)
             /\ ErrorsAt("FieldNumberInExtensionRange", x.id.path) = {}
             /\ Cardinality(ErrorsAt("ExtensionNumberOutOfRange", x.id.path)) =
                  (IF InExtensionRange(x.extendee[2], n) = {} THEN 1 ELSE 0)

\* A field whose number lies in two extension ranges of its message.
C8_Witness ==
  \E i \in 1..Len(Fields(0)) :
    /\ input[Fields(0)[i].id.path].extendee = None
    /\ Cardinality(InExtensionRange(0, input[Fields(0)[i].id.path].number)) = 2
    /\ Cardinality(ErrorsAt("FieldNumberInExtensionRange", Fields(0)[i].id.path)) = 1

\* ---- C9

\* The map is an injection from the keys of the fields (by position) onto their
\* indices.
Injection(map, keys) ==
  /\ DOMAIN map = {keys[i] : i \in 1..Len(keys)}
  /\ Cardinality(DOMAIN map) = Len(keys)
  /\ \A i \in 1..Len(keys) : map[keys[i]] = i - 1

\* Two fields of fs with the same key have an error of `kind` at the later one.
DuplicateReported(fs, keys, kind) ==
  \A i, j \in 1..Len(fs) :
    (i < j /\ keys[i] = keys[j]) => ErrorsAt(kind, fs[j].id.path) # {}

\* C9: after a pass that succeeded the three maps of every message are
\* injections with one entry per field, mapping to that field; two fields of a
\* message that share a number, a name or a JSON name have the matching
\* duplicate error, and the pass does not succeed.
C9_UniqueWithinMessage ==
  \A m \in Messages :
    LET msg     == At(pool.messages, m)
        fs      == msg.fields
        numbers == [i \in 1..Len(fs) |-> fs[i].number]
        names   == [i \in 1..Len(fs) |-> fs[i].id.name]
        jsons   == [i \in 1..Len(fs) |-> json_name_of(input[fs[i].id.path])]
    IN  /\ Succeeded =>
             /\ Injection(msg.field_numbers, numbers)
             /\ Injection(msg.field_names, names)
             /\ Injection(msg.field_json_names, jsons)
        /\ DuplicateReported(fs, numbers, "DuplicateFieldNumber")
        /\ DuplicateReported(fs, names, "DuplicateName")
        /\ DuplicateReported(fs, jsons, "DuplicateFieldJsonName")
        /\ (\E i, j \in 1..Len(fs) :
              i < j /\ (numbers[i] = numbers[j] \/ names[i] = names[j] \/ jsons[i] = jsons[j]))
             => ~Succeeded

\* A pass that succeeded on a message of two fields.
C9_Witness ==
  /\ Succeeded
  /\ Len(Fields(0)) = 2
  /\ Cardinality(DOMAIN At(pool.messages, 0).field_json_names) = 2

\* ---- C10

\* The recorded kind of x is the kind its declaration resolves to.
KindResolved(x, decl) ==
  LET c == ClaimedKind(decl, x.id.full_name) IN c.error = "" /\ x.kind = Unwrap(c.kind)

\* C10: after a pass that succeeded every method's input and output and every
\* extension's extendee is the handle of a message, never MessageIndex::MAX, and
\* every field's and extension's kind is the kind its type resolved to.
C10_NoSentinels ==
  Succeeded =>
    /\ \A i \in 1..Len(pool.services) : \A j \in 1..Len(pool.services[i].methods) :
         LET x == pool.services[i].methods[j] IN
         /\ x.input # MessageIndex_MAX /\ IsMessageHandle(x.input)
         /\ x.output # MessageIndex_MAX /\ IsMessageHandle(x.output)
    /\ \A i \in 1..Len(pool.extensions) :
         LET x == pool.extensions[i] IN
         /\ x.extendee # MessageIndex_MAX /\ IsMessageHandle(x.extendee)
         /\ KindResolved(x, input[x.id.path])
    /\ \A m \in Messages : \A i \in 1..Len(Fields(m)) :
         KindResolved(Fields(m)[i], input[Fields(m)[i].id.path])

\* A pass that succeeded with a method, an extension and a field of message kind.
C10_Witness ==
  /\ Succeeded
  /\ pool.services # <<>> /\ pool.services[1].methods # <<>>
  /\ pool.extensions # <<>>

\* ---- C11

\* The raw declaration at path p as the pass has left it.
Raw(p) == find_proto(At(pool.files, FILE).raw, p)

\* The raw type tag that names kind k.
TagOfKind(k) ==
  IF k = "Message" THEN Some(Type.Message)
  ELSE IF k = "Enum" THEN Some(Type.Enum)
  ELSE Some(Type.Group)

\* C11 as first stated: after a pass that succeeded the raw type tag of every
\* field and extension with a type name is the tag of its kind (MESSAGE, ENUM or
\* GROUP), and a tag that was GROUP is not overwritten.
C11_TagAgreesWithKind ==
  /\ \A m \in Messages : \A i \in 1..Len(Fields(m)) :
       LET x == Fields(m)[i] IN
       /\ (Succeeded /\ input[x.id.path].type_name # <<>>) =>
            Raw(x.id.path).type = TagOfKind(x.kind.k)
       /\ input[x.id.path].type = Some(Type.Group) => Raw(x.id.path).type = Some(Type.Group)
  /\ \A i \in 1..Len(pool.extensions) :
       LET x == pool.extensions[i] IN
       /\ (Succeeded /\ input[x.id.path].type_name # <<>>) =>
            Raw(x.id.path).type = TagOfKind(x.kind.k)
       /\ input[x.id.path].type = Some(Type.Group) => Raw(x.id.path).type = Some(Type.Group)

\* The raw tag of descriptor x agrees with its kind unless the tag was GROUP,
\* which stays whatever the name resolved to.
TagAfterResolution(x) ==
  LET before == input[x.id.path]  after == Raw(x.id.path) IN
  /\ before.type = Some(Type.Group) => after.type = Some(Type.Group)
  /\ (Succeeded /\ before.type_name # <<>>) =>
       /\ x.kind.k \in {"Message", "Enum", "Group"}
       /\ x.kind.k = "Group" => before.type = Some(Type.Group)
       /\ before.type # Some(Type.Group) => after.type = TagOfKind(x.kind.k)

\* C11: after a pass that succeeded the raw type tag of every field and
\* extension with a type name is MESSAGE for kind Message and ENUM for kind
\* Enum when the tag was not GROUP before resolution; a tag that was GROUP is
\* never overwritten, also when the name resolved to an enum (kind Enum).
C11_TagAgreesUnlessGroup ==
  /\ \A m \in Messages : \A i \in 1..Len(Fields(m)) : TagAfterResolution(Fields(m)[i])
  /\ \A i \in 1..Len(pool.extensions) : TagAfterResolution(pool.extensions[i])

\* A pass that succeeded on a field declared GROUP whose type name is an enum.
C11_Witness ==
  /\ Succeeded
  /\ \E i \in 1..Len(Fields(0)) :
       LET x == Fields(0)[i] IN
       /\ input[x.id.path].type = Some(Type.Group)
       /\ x.kind.k = "Enum"
       /\ Raw(x.id.path).type = Some(Type.Group)
       /\ Raw(x.id.path).type_name = <<".", "p", "E">>

\* ---- C12

\* The reference `after`, left by the pass for the reference spelled `before`,
\* is absolute and resolves in `scope` to itself and to the definition `before`
\* resolved to.
Canonical(scope, before, after) ==
  after # <<>> =>
    /\ Head(after) = "."
    /\ resolve_name(pool.names, scope, after) # None
    /\ Unwrap(resolve_name(pool.names, scope, after)).name = after
    /\ resolve_name(pool.names, scope, before) # None
    /\ Unwrap(resolve_name(pool.names, scope, after)).def =
         Unwrap(resolve_name(pool.names, scope, before)).def

\* C12: after a pass that succeeded every non-empty type_name, extendee,
\* input_type and output_type of the raw file (fields of messages and nested
\* messages, nested and file-level extensions, methods) starts with "." and
\* resolves again, in the same scope, to the same string and definition.
C12_CanonicalFixedPoint ==
  Succeeded =>
    /\ \A m \in Messages : \A i \in 1..Len(Fields(m)) :
         LET x == Fields(m)[i] IN
         Canonical(x.id.full_name, input[x.id.path].type_name, Raw(x.id.path).type_name)
    /\ \A i \in 1..Len(pool.extensions) :
         LET x == pool.extensions[i] IN
         /\ Canonical(x.id.full_name, input[x.id.path].type_name, Raw(x.id.path).type_name)
         /\ Canonical(x.id.full_name, extendee_of(input[x.id.path]),
                      extendee_of(Raw(x.id.path)))
    /\ \A i \in 1..Len(pool.services) : \A j \in 1..Len(pool.services[i].methods) :
         LET x == pool.services[i].methods[j] IN
         /\ Canonical(x.id.full_name, UnwrapOr(input[x.id.path].input_type, <<>>),
                      UnwrapOr(Raw(x.id.path).input_type, <<>>))
         /\ Canonical(x.id.full_name, UnwrapOr(input[x.id.path].output_type, <<>>),
                      UnwrapOr(Raw(x.id.path).output_type, <<>>))

\* A pass that succeeded on a field of the nested message whose type name was
\* spelled relative to an enclosing scope.
C12_Witness ==
  /\ Succeeded
  /\ \E i \in 1..Len(Fields(1)) :
       /\ input[Fields(1)[i].id.path].type_name = <<"B">>
       /\ Raw(Fields(1)[i].id.path).type_name = <<".", "p", "A", "B">>

\* ---- C13

\* The longest prefix of the scope under which the first segment of the name is
\* declared, None when there is none.
Base(scope, name) ==
  LET ks == {k \in 0..Len(scope) : (SubSeq(scope, 1, k) \o <<Head(name)>>) \in DOMAIN pool.names}
  IN  IF ks = {} THEN None
      ELSE Some(SubSeq(scope, 1, CHOOSE k \in ks : \A j \in ks : j <= k))

\* The fully-qualified name a non-empty reference denotes in a scope, None when
\* it denotes none: absolute names as they stand, relative ones under their base.
Denotes(scope, name) ==
  IF Head(name) = "."
  THEN IF Tail(name) \in DOMAIN pool.names THEN Some(Tail(name)) ELSE None
  ELSE IF Base(scope, name) = None THEN None
  ELSE IF (Unwrap(Base(scope, name)) \o name) \in DOMAIN pool.names
       THEN Some(Unwrap(Base(scope, name)) \o name)
       ELSE None

\* The reference `before` at label `p` was resolved as it denotes: not found, with
\* a NameNotFound and the spelling kept, or found, with the fully-qualified name
\* of the definition written back.
ResolvedAsDenoted(scope, before, after, p) ==
  before # <<>> =>
    IF Denotes(scope, before) = None
    THEN /\ Cardinality({e \in 1..Len(errors) :
                           errors[e].kind = "NameNotFound" /\ errors[e].found = p}) = 1
         /\ after = before
    ELSE /\ {e \in 1..Len(errors) : errors[e].kind = "NameNotFound" /\ errors[e].found = p} = {}
         /\ after = <<".">> \o Unwrap(Denotes(scope, before))

\* C13: every reference the pass resolved was resolved by the rule: an absolute
\* name whatever the scope, a relative one under the longest scope prefix that
\* declares its first segment and nowhere else; the name written back is the
\* fully-qualified name of the definition found, and the kind recorded for a
\* type name is the kind of that definition.
C13_RelativeResolution ==
  /\ \A m \in Messages : \A i \in 1..Len(Fields(m)) :
       LET x == Fields(m)[i]  n == input[x.id.path].type_name IN
       /\ ResolvedAsDenoted(x.id.full_name, n, Raw(x.id.path).type_name,
                            x.id.path \o <<tag.field.TYPE_NAME>>)
       /\ (n # <<>> /\ Denotes(x.id.full_name, n) # None /\ KindErrors(x.id.path) = {}) =>
            LET def == pool.names[Unwrap(Denotes(x.id.full_name, n))] IN
            /\ def.kind \in {"Message", "Enum"}
            /\ x.kind.h = def.idx
            /\ (def.kind = "Enum") <=> (x.kind.k = "Enum")
  /\ \A i \in 1..Len(pool.extensions) :
       LET x == pool.extensions[i] IN
       /\ ResolvedAsDenoted(x.id.full_name, input[x.id.path].type_name,
                            Raw(x.id.path).type_name, x.id.path \o <<tag.field.TYPE_NAME>>)
       /\ ResolvedAsDenoted(x.id.full_name, extendee_of(input[x.id.path]),
                            extendee_of(Raw(x.id.path)), x.id.path \o <<tag.field.EXTENDEE>>)
  /\ \A i \in 1..Len(pool.services) : \A j \in 1..Len(pool.services[i].methods) :
       LET x == pool.services[i].methods[j] IN
       /\ ResolvedAsDenoted(x.id.full_name, UnwrapOr(input[x.id.path].input_type, <<>>),
                            UnwrapOr(Raw(x.id.path).input_type, <<>>),
                            x.id.path \o <<tag.method.INPUT_TYPE>>)
       /\ ResolvedAsDenoted(x.id.full_name, UnwrapOr(input[x.id.path].output_type, <<>>),
                            UnwrapOr(Raw(x.id.path).output_type, <<>>),
                            x.id.path \o <<tag.method.OUTPUT_TYPE>>)

\* A field of A refers to A.B while A declares a member named A: the base is
\* p.A, p.A.A.B is not declared, and the declared p.A.B is not fallen back to.
C13_Witness ==
  /\ <<"p", "A", "A">> \in DOMAIN pool.names
  /\ <<"p", "A", "B">> \in DOMAIN pool.names
  /\ \E i \in 1..Len(Fields(0)) :
       /\ input[Fields(0)[i].id.path].type_name = <<"A", "B">>
       /\ ErrorsAt("NameNotFound", Fields(0)[i].id.path) # {}
       /\ Raw(Fields(0)[i].id.path).type_name = <<"A", "B">>

\* ---- C14

\* The InvalidFieldDefault errors (by position) of the declaration at path p.
DefaultErrors(p) ==
  {e \in 1..Len(errors) :
     /\ errors[e].kind = "InvalidFieldDefault"
     /\ errors[e].found = p \o <<tag.field.DEFAULT_VALUE>>}

\* The declared values of enum h whose short name is the text t, by position.
NamedValues(h, t) ==
  {j \in 1..Len(At(pool.enums, h).values) : utf8[At(pool.enums, h).values[j].id.name] = t}

\* The recorded field x, declared as f, has the default its kind gives its text.
DefaultAsClaimed(x, f) ==
  LET d == f.default_value  errs == DefaultErrors(x.id.path) IN
  /\ d = None => x.default = None /\ errs = {}
  /\ (d # None /\ x.kind.k \in {"Message", "Group"}) =>
       /\ x.default = None
       /\ Cardinality(errs) = 1
       /\ \A e \in errs : errors[e].what = <<"message type">> /\ errors[e].name = Unwrap(d)
  /\ (d # None /\ x.kind.k = "Enum") =>
       IF NamedValues(x.kind.h, Unwrap(d)) = {}
       THEN x.default = None /\ Cardinality(errs) = 1
       ELSE /\ errs = {}
            /\ \E j \in NamedValues(x.kind.h, Unwrap(d)) :
                 /\ \A k \in NamedValues(x.kind.h, Unwrap(d)) : j <= k
                 /\ x.default = Some(Value("EnumNumber", At(pool.enums, x.kind.h).values[j].number))
  /\ (d # None /\ x.kind.k = "String") =>
       x.default = Some(Value("String", Unwrap(d))) /\ errs = {}
  /\ errs # {} => x.default = None

\* C14: the default of every field whose kind resolved is parsed by that kind:
\* none declared gives none and no error; on a message or group it is always an
\* InvalidFieldDefault of kind "message type"; on an enum it is the number of the
\* first declared value of that short name, else an InvalidFieldDefault; on a
\* string it is the text itself.  Whenever InvalidFieldDefault is emitted the
\* field is recorded with no default, and every field handed to the pass so far
\* has been recorded.
C14_DefaultByKind ==
  \A m \in Messages :
    /\ result # Some(Panic) => Len(Fields(m)) = context.fields[m + 1]
    /\ \A i \in 1..Len(Fields(m)) :
         KindErrors(Fields(m)[i].id.path) = {} =>
           DefaultAsClaimed(Fields(m)[i], input[Fields(m)[i].id.path])

\* The first field of A is a message with a default, rejected; the second, visited
\* after it, is the enum with the default "X", the second declared value.
C14_Witness ==
  /\ Len(Fields(0)) = 2
  /\ Fields(0)[1].kind.k = "Message"
  /\ input[Fields(0)[1].id.path].default_value # None
  /\ DefaultErrors(Fields(0)[1].id.path) # {}
  /\ Fields(0)[1].default = None
  /\ Fields(0)[2].kind.k = "Enum"
  /\ Fields(0)[2].default = Some(Value("EnumNumber", 1))

\* ---- C15

\* The decoder as it is described: the one-letter escapes,
ClaimedEscapes ==
  (97 :> 7) @@ (98 :> 8) @@ (102 :> 12) @@ (110 :> 10) @@ (114 :> 13) @@ (116 :> 9)
  @@ (118 :> 11) @@ (92 :> 92) @@ (63 :> 63) @@ (39 :> 39) @@ (34 :> 34)

\* the outcome of a text that begins with `bytes`, decoded, by an escape of
\* the kind `met`, and goes on with a text of outcome r,
Then(bytes, met, r) ==
  [tag |-> r.tag, value |-> IF r.tag = "Ok" THEN bytes \o r.value ELSE r.value,
   met |-> r.met \cup met]

Fails(message, met) == [tag |-> "Err", value |-> message, met |-> met]

\* the characters of a text (its bytes that begin one),
CharCount(t) == Cardinality({i \in 1..Len(t) : t[i] \notin 128..191})

IsHexDigit(c) == c \in 48..57 \/ c \in 65..70 \/ c \in 97..102

HexDigit(c) == IF c \in 48..57 THEN c - 48 ELSE IF c \in 65..70 THEN c - 55 ELSE c - 87

\* the number of octal digits an escape takes from the head of t: up to three,
OctalRun(t) ==
  IF Len(t) >= 3 /\ t[2] \in 48..55 /\ t[3] \in 48..55 THEN 3
  ELSE IF Len(t) >= 2 /\ t[2] \in 48..55 THEN 2
  ELSE 1

RECURSIVE OctalValue(_)
OctalValue(t) ==
  IF t = <<>> THEN 0 ELSE 8 * OctalValue(SubSeq(t, 1, Len(t) - 1)) + (t[Len(t)] - 48)

RECURSIVE Reference(_)
\* and the outcome of a whole text, with the kinds of escape met on the way.
Reference(t) ==
  IF t = <<>> THEN [tag |-> "Ok", value |-> <<>>, met |-> {}]
  ELSE IF t[1] # 92 THEN Then(<<t[1]>>, {}, Reference(Tail(t)))
  ELSE IF Len(t) = 1 THEN Fails("missing escape character", {"simple"})
  ELSE IF t[2] \in DOMAIN ClaimedEscapes
  THEN Then(<<ClaimedEscapes[t[2]]>>, {"simple"}, Reference(SubSeq(t, 3, Len(t))))
  ELSE IF t[2] \in 48..55
  THEN Then(<<OctalValue(SubSeq(t, 2, 1 + OctalRun(Tail(t)))) % 256>>, {"octal"},
            Reference(SubSeq(t, 2 + OctalRun(Tail(t)), Len(t))))
  ELSE IF t[2] \in {120, 88}
  THEN IF CharCount(SubSeq(t, 3, Len(t))) < 2
       THEN Fails("hex escape must contain two characters", {"hex"})
       ELSE IF ~(IsHexDigit(t[3]) /\ IsHexDigit(t[4]))
       THEN Fails("invalid hex escape", {"hex"})
       ELSE Then(<<16 * HexDigit(t[3]) + HexDigit(t[4])>>, {"hex"},
                 Reference(SubSeq(t, 5, Len(t))))
  ELSE Fails("invalid escape character", {"simple"})

\* The text the decoder was called on, and whether it returned what is described.
Text == input[<<>>]

AsDescribed ==
  /\ Unwrap(result).tag = Reference(Text).tag
  /\ Unwrap(result).value = Reference(Text).value

\* C15: on every text in which the decoder meets no octal and no hex escape, it
\* returns what the reference decoder returns: bytes other than the backslash
\* are copied (multi-byte characters included), the eleven one-letter escapes
\* give their byte, a backslash before any other character that is no octal
\* digit, x or X fails with "invalid escape character", a backslash at the end
\* fails with "missing escape character", and a text without a backslash decodes
\* to itself.
C15_BasicEscapes ==
  result # None =>
    /\ Reference(Text).met \subseteq {"simple"} => AsDescribed
    /\ (\A i \in 1..Len(Text) : Text[i] # 92) => Unwrap(result) = Ok(Text)

\* A two-byte character, a one-letter escape and a literal were decoded.
C15_Witness ==
  /\ result = Some(Ok(<<195, 169, 10, 120>>))
  /\ Text = <<195, 169, 92, 110, 120>>

\* ---- C16

\* C16: on every text in which the decoder meets no octal escape, a hex escape
\* takes exactly the two characters after \x or \X: with fewer than two left it
\* fails with "hex escape must contain two characters", with two that are not
\* both hex digits it fails with "invalid hex escape", and otherwise it gives the
\* one byte they denote and decoding goes on after them.
C16_HexTwoDigits ==
  result # None =>
    ("octal" \notin Reference(Text).met => AsDescribed)

\* ---- C17

\* C17: on every text in which the decoder meets no hex escape, an octal escape
\* takes one to three digits 0..7, greedily, and gives the one byte that is their
\* value modulo 256, in every build.
C17_OctalModulo ==
  result # None =>
    ("hex" \notin Reference(Text).met => AsDescribed)

\* ---- C18

\* The messages of the type map.
BuiltMessages == {pool.tys[i].message : i \in {j \in 1..Len(pool.tys) : pool.tys[j].tag = "Message"}}

\* The message M handed to add_files, and its file's syntax.
ProtoM == input[<<>>].file[1].message_type[1]

SyntaxM == IF input[<<>>].file[1].syntax = Some("proto3") THEN "Proto3" ELSE "Proto2"

\* C18: a built message that is a map entry has exactly the fields 1 and 2, and
\* add_files fails on a message with the map_entry option whose field numbers
\* are not exactly 1 and 2.
C18_MapEntryExactlyTwo ==
  /\ Succeeded =>
       \A m \in BuiltMessages :
         m.is_map_entry => DOMAIN m.fields = {MAP_ENTRY_KEY_TAG, MAP_ENTRY_VALUE_TAG}
  /\ (/\ result # None
      /\ ProtoM.options # None
      /\ map_entry_of(Unwrap(ProtoM.options))
      /\ {ProtoM.field[i].number : i \in 1..Len(ProtoM.field)}
           # {MAP_ENTRY_KEY_TAG, MAP_ENTRY_VALUE_TAG})
       => Unwrap(result).tag = "Err"

\* ---- C19

\* C19: every field of a built message that is packed is repeated and of a
\* packable type.
C19_PackedImpliesRepeated ==
  Succeeded =>
    \A m \in BuiltMessages : \A n \in DOMAIN m.fields :
      m.fields[n].is_packed =>
        /\ m.fields[n].cardinality = "Repeated"
        /\ Type_is_packable(Index(pool, m.fields[n].ty))

\* ---- C20

\* The declaration a built field of M comes from: the last of its number.
ProtoOf(n) ==
  ProtoM.field[CHOOSE i \in 1..Len(ProtoM.field) :
                 /\ ProtoM.field[i].number = n
                 /\ \A j \in 1..Len(ProtoM.field) : ProtoM.field[j].number = n => j <= i]

\* C20: a built field supports presence if its file is proto2 and it is not
\* repeated (optional or required), and if its file is proto3 and it is a
\* message-typed field that is not repeated or a field contained in a oneof.
C20_PresenceAsDocumented ==
  Succeeded =>
    \A m \in BuiltMessages : \A n \in DOMAIN m.fields :
      m.name = NameM =>
        /\ (SyntaxM = "Proto2" /\ m.fields[n].cardinality # "Repeated") =>
             m.fields[n].supports_presence
        /\ (SyntaxM = "Proto3"
            /\ \/ ProtoOf(n).oneof_index # None
               \/ /\ Index(pool, m.fields[n].ty).tag = "Message"
                  /\ ~m.fields[n].is_group
                  /\ m.fields[n].cardinality # "Repeated") =>
             m.fields[n].supports_presence

\* ---- C21

\* The oneofs of message m.
Oneofs(m) == At(pool.messages, m).oneofs

\* The oneof_index of the declaration of field j (from 1) of m names a oneof of m.
ValidOneof(m, j) ==
  LET o == input[Fields(m)[j].id.path].oneof_index IN
  o # None /\ Unwrap(o) >= 0 /\ Unwrap(o) < Len(Oneofs(m))

\* The indices (from 0) of the fields of m that record oneof i, in declaration order.
RECURSIVE Members(_, _, _)
Members(m, i, n) ==
  IF n = 0 THEN <<>>
  ELSE IF Fields(m)[n].oneof = Some(i) THEN Append(Members(m, i, n - 1), n - 1)
  ELSE Members(m, i, n - 1)

\* C21: a field whose oneof_index names a oneof of its message records that
\* oneof, any other field records none; the list of each oneof holds the indices
\* of the fields that record it, once each and in declaration order; and there
\* is one InvalidOneofIndex for each field whose oneof_index names no oneof.
C21_OneofMembership ==
  /\ \A m \in Messages :
       /\ \A j \in 1..Len(Fields(m)) :
            Fields(m)[j].oneof =
              IF ValidOneof(m, j) THEN input[Fields(m)[j].id.path].oneof_index ELSE None
       /\ \A i \in 1..Len(Oneofs(m)) :
            Oneofs(m)[i].fields = Members(m, i - 1, Len(Fields(m)))
  /\ Cardinality({e \in 1..Len(errors) : errors[e].kind = "InvalidOneofIndex"})
       = Cardinality({<<m, j>> \in Messages \X (1..MaxDecls + 1) :
                        /\ j <= Len(Fields(m))
                        /\ input[Fields(m)[j].id.path].oneof_index # None
                        /\ ~ValidOneof(m, j)})

\* Two fields of A were put in its oneof, in declaration order.
C21_Witness ==
  /\ Len(Fields(0)) = 2
  /\ Oneofs(0)[1].fields = <<0, 1>>
  /\ Fields(0)[1].oneof = Some(0)
  /\ Fields(0)[2].oneof = Some(0)

\* ---- C22

\* The enum of the input and its values visited so far, by position (from 1).
EnumE == At(pool.enums, 0)

Visited == 1..context.value

\* The errors (by position) of one kind whose `found` label is exactly p.
ErrorsFound(kind, p) == {e \in 1..Len(errors) : errors[e].kind = kind /\ errors[e].found = p}

\* C22: value_numbers is sorted by number and holds one (number, index) entry
\* for each value visited; a value gets one DuplicateEnumNumber if allow_alias is
\* false and an earlier value has its number, else none; and one DuplicateName
\* if an earlier value has its name, else none.
C22_ValueNumbers ==
  family \in Families /\ context.phase # "start" =>
    /\ \A i \in 1..(Len(EnumE.value_numbers) - 1) :
         EnumE.value_numbers[i][1] <= EnumE.value_numbers[i + 1][1]
    /\ Len(EnumE.value_numbers) = context.value
    /\ \A j \in Visited :
         /\ \E i \in 1..Len(EnumE.value_numbers) :
              EnumE.value_numbers[i] = <<EnumE.values[j].number, j - 1>>
         /\ Cardinality(ErrorsFound("DuplicateEnumNumber",
                                    ValuePath(j - 1) \o <<tag.enum_value.NUMBER>>))
              = IF ~EnumE.allow_alias
                   /\ \E k \in 1..(j - 1) : EnumE.values[k].number = EnumE.values[j].number
                THEN 1 ELSE 0
         /\ Cardinality(ErrorsFound("DuplicateName",
                                    ValuePath(j - 1) \o <<tag.enum_value.NAME>>))
              = IF \E k \in 1..(j - 1) : EnumE.values[k].id.name = EnumE.values[j].id.name
                THEN 1 ELSE 0

\* Two values of one number were visited without allow_alias: both are listed
\* and the second is reported.
C22_Witness ==
  /\ context.value = 2
  /\ ~EnumE.allow_alias
  /\ EnumE.values[1].number = EnumE.values[2].number
  /\ Len(EnumE.value_numbers) = 2
  /\ ErrorsFound("DuplicateEnumNumber", ValuePath(1) \o <<tag.enum_value.NUMBER>>) # {}

\* ---- C23

\* The resolution step an error kind belongs to, as the steps are numbered for a
\* field: kind resolution, default value, oneof membership, number validation,
\* uniqueness.
StepOf(kind) ==
  IF kind \in {"NameNotFound", "InvalidType", "MissingRequiredField"} THEN 2
  ELSE IF kind = "InvalidFieldDefault" THEN 5
  ELSE IF kind = "InvalidOneofIndex" THEN 6
  ELSE IF kind \in {"InvalidFieldNumber", "FieldNumberInReservedRange",
                    "FieldNumberInExtensionRange"} THEN 7
  ELSE 8

\* The step visited one more field of a message.
FieldVisited == context'.fields # context.fields

\* The positions in errors' of the errors the step added.
Added == (Len(errors) + 1)..Len(errors')

\* C23: the errors of one message field appear in the order of the resolution
\* steps: kind resolution, InvalidFieldDefault, InvalidOneofIndex, number
\* validation, uniqueness.
C23_StepOrder ==
  [][FieldVisited =>
       /\ SubSeq(errors', 1, Len(errors)) = errors
       /\ \A i, j \in Added : i < j => StepOf(errors'[i].kind) <= StepOf(errors'[j].kind)]_vars

\* ---- C24

\* The raw file, once visited, and the dependencies resolved for it.
RawFile == input[<<>>]

Dependencies == At(pool.files, FILE).dependencies

\* The handles of the first n dependency strings that name a file of the pool.
RECURSIVE HandlesOf(_, _)
HandlesOf(deps, n) ==
  IF n = 0 THEN <<>>
  ELSE IF deps[n] \in DOMAIN pool.file_names
       THEN Append(HandlesOf(deps, n - 1), pool.file_names[deps[n]])
       ELSE HandlesOf(deps, n - 1)

\* The positions of an import list that are no index into the declared dependencies.
BadImports(list) ==
  {j \in 1..Len(list) : list[j] < 0 \/ list[j] >= Len(RawFile.dependency)}

\* C24: the resolved dependencies are the handles of the dependency strings
\* that name a pool file, in order; each other string has one FileNotFound; each
\* public or weak index that is negative or not below the number of declared
\* dependencies has one InvalidImportIndex; and in a build without errors the
\* resolved list matches the raw one entry by entry, with every import index
\* an index into it.
C24_FileResolution ==
  context.phase # "start" =>
    /\ Dependencies = HandlesOf(RawFile.dependency, Len(RawFile.dependency))
    /\ \A i \in 1..Len(RawFile.dependency) :
         Cardinality(ErrorsFound("FileNotFound", <<tag.file.DEPENDENCY, i - 1>>))
           = IF RawFile.dependency[i] \in DOMAIN pool.file_names THEN 0 ELSE 1
    /\ Cardinality({e \in 1..Len(errors) : errors[e].kind = "InvalidImportIndex"})
         = Cardinality(BadImports(RawFile.public_dependency))
           + Cardinality(BadImports(RawFile.weak_dependency))
    /\ errors = <<>> =>
         /\ Len(Dependencies) = Len(RawFile.dependency)
         /\ \A i \in 1..Len(Dependencies) :
              At(pool.files, Dependencies[i]).name = RawFile.dependency[i]
         /\ \A i \in 1..Len(RawFile.public_dependency) :
              RawFile.public_dependency[i] \in 0..(Len(Dependencies) - 1)
         /\ \A i \in 1..Len(RawFile.weak_dependency) :
              RawFile.weak_dependency[i] \in 0..(Len(Dependencies) - 1)

\* A file with an unknown and a known dependency, a public index beyond both and
\* one onto the first, was visited: one handle, FileNotFound, InvalidImportIndex.
C24_Witness ==
  /\ context.phase = "file"
  /\ RawFile.dependency = <<"zz.proto", "dep.proto">>
  /\ RawFile.public_dependency = <<2, 0>>
  /\ RawFile.weak_dependency = <<0>>
  /\ Dependencies = <<0>>
  /\ Len(errors) = 2
  /\ errors[1].kind = "FileNotFound"
  /\ errors[2].kind = "InvalidImportIndex"

\* ---- C25

\* The reference at label path q failed: NameNotFound or InvalidType was reported there.
ReferenceFailed(q) ==
  \E e \in 1..Len(errors) :
    errors[e].kind \in {"NameNotFound", "InvalidType"} /\ errors[e].found = q

\* The field and extension declarations handed out, and the methods.
FieldPaths == {p \in DeclPaths : "type_name" \in DOMAIN input[p]}

MethodPaths == {p \in DeclPaths : "input_type" \in DOMAIN input[p]}

\* C25: a type_name, extendee, input_type or output_type that fails to resolve
\* or resolves to a definition of the wrong kind leaves the raw name string and
\* type tag as they were handed in.
C25_FailureLeavesRaw ==
  /\ \A p \in FieldPaths :
       /\ ReferenceFailed(p \o <<tag.field.TYPE_NAME>>) =>
            Raw(p).type_name = input[p].type_name /\ Raw(p).type = input[p].type
       /\ ReferenceFailed(p \o <<tag.field.EXTENDEE>>) =>
            Raw(p).extendee = input[p].extendee
  /\ \A p \in MethodPaths :
       /\ ReferenceFailed(p \o <<tag.method.INPUT_TYPE>>) =>
            Raw(p).input_type = input[p].input_type
       /\ ReferenceFailed(p \o <<tag.method.OUTPUT_TYPE>>) =>
            Raw(p).output_type = input[p].output_type

\* ---- C26

\* Extension i (from 1) was recorded on a message, the one extension k or field
\* j of which has its number.
ClashesWithExtension(i, k) ==
  /\ pool.extensions[i].extendee # MessageIndex_MAX
  /\ pool.extensions[k].extendee = pool.extensions[i].extendee
  /\ pool.extensions[k].number = pool.extensions[i].number

ClashesWithField(i, j) ==
  \E m \in Messages :
    /\ pool.extensions[i].extendee = AsU32(m)
    /\ j <= Len(Fields(m))
    /\ Fields(m)[j].number = pool.extensions[i].number

\* C26: an extension with the number of an earlier extension of the same message,
\* or of a field of that message, is reported with DuplicateFieldNumber at its
\* number.
C26_ExtensionNumbersUnique ==
  \A i \in 1..Len(pool.extensions) :
    (\/ \E k \in 1..(i - 1) : ClashesWithExtension(i, k)
     \/ \E j \in 1..(MaxDecls + 1) : ClashesWithField(i, j))
    => ErrorsFound("DuplicateFieldNumber",
                   pool.extensions[i].id.path \o <<tag.field.NUMBER>>) # {}

\* ---- C27

\* The types add_files collects from the file set, by name.
Protos == iter_tys(input[<<>>]).value

\* The message built under a registered name.
Built(name) == At(pool.tys, pool.names[name].index).message

\* The built fields of the messages of `names` carry, for a reference, the id
\* registered for the type referred to.
ReferencesRegistered(names) ==
  \A x \in names : Protos[x].tag = "Message" =>
    \A i \in 1..Len(Protos[x].message_proto.field) :
      type_of(Protos[x].message_proto.field[i]) \notin ScalarTypes =>
        /\ Protos[x].message_proto.field[i].number \in DOMAIN Built(x).fields
        /\ Built(x).fields[Protos[x].message_proto.field[i].number].ty
             = pool.names[Protos[x].message_proto.field[i].type_name]

\* C27: add_files returns on every file set, with or without cycles among the
\* messages, in whatever order it takes the types; no name is registered twice; and when it succeeds every named
\* message and enum is registered once and every field that refers to a message
\* or enum, one under construction included, carries the id of that name.
C27_CyclesTerminate ==
  /\ context.phase = "start" /\ iter_tys(input[<<>>]).tag = "Ok" =>
       \A order \in Orders(DOMAIN Protos) :
         add_files(pool, input[<<>>], order, context.checked).result.tag
           \in {"Ok", "Err", "Panic"}
  /\ context.phase = "done" =>
       /\ result # None
       /\ Len(pool.tys) = Cardinality(DOMAIN pool.names)
       /\ \A a, b \in DOMAIN pool.names : pool.names[a] = pool.names[b] => a = b
       /\ Succeeded =>
            /\ DOMAIN pool.names = DOMAIN Protos
            /\ ReferencesRegistered(DOMAIN Protos)

\* The cycle M -> N -> O -> M was built: four types, and the field of O carries
\* the id of M.
C27_Witness ==
  /\ family = "cycle"
  /\ Succeeded
  /\ Protos[NameM].message_proto.field = <<OldReference(1, NameN)>>
  /\ Protos[NameN].message_proto.field = <<OldReference(1, NameO)>>
  /\ Protos[NameO].message_proto.field = <<OldReference(1, NameM)>>
  /\ Len(pool.tys) = 4
  /\ Built(NameO).fields[1].ty = pool.names[NameM]

\* ---- C28

\* C28: both decoders return on every text, Ok with no more bytes than the
\* text has or an Err, never a panic; and the two return Ok on the same texts
\* with the same bytes.
C28_BothTotal ==
  family = "unescape" /\ context.phase = "done" =>
    /\ Unwrap(result).tag \in {"Ok", "Err"}
    /\ pool.ty.tag \in {"Ok", "Err"}
    /\ Unwrap(result).tag = "Ok" => Len(Unwrap(result).value) <= Len(input[<<>>])
    /\ pool.ty.tag = "Ok" => Len(pool.ty.value) <= Len(input[<<>>])
    /\ Unwrap(result).tag = "Ok" <=> pool.ty.tag = "Ok"
    /\ Unwrap(result).tag = "Ok" /\ pool.ty.tag = "Ok" => Unwrap(result).value = pool.ty.value

\* ---- C29

\* Field j (from 1) of message m declares the JSON name an earlier field of m
\* declares.
DeclaredJsonNameClash(m, j) ==
  /\ input[Fields(m)[j].id.path].json_name # None
  /\ \E i \in 1..(j - 1) :
       input[Fields(m)[i].id.path].json_name = input[Fields(m)[j].id.path].json_name

\* C29: DuplicateFieldJsonName is reported on a field only if the field and an
\* earlier field of its message both set json_name, to the same name; fields
\* that set none are not reported.
C29_DeclaredJsonNamesOnly ==
  \A m \in Messages : \A j \in 1..Len(Fields(m)) :
    ErrorsFound("DuplicateFieldJsonName", Fields(m)[j].id.path \o <<tag.field.NAME>>) # {}
      => DeclaredJsonNameClash(m, j)

\* ---- C30

\* C30: the `found` label of EnumNumberInReservedRange is the path of a visited
\* enum value extended by the NUMBER tag of enum values, and the `first` and
\* `second` labels of DuplicateFieldNumber are the paths of an earlier and a
\* later field of one message extended by the NUMBER tag of fields.
C30_LabelsCiteSubElement ==
  \A e \in 1..Len(errors) :
    /\ errors[e].kind = "EnumNumberInReservedRange" =>
         \E j \in Visited :
           /\ errors[e].found = ValuePath(j - 1) \o <<tag.enum_value.NUMBER>>
           /\ errors[e].number = EnumE.values[j].number
    /\ errors[e].kind = "DuplicateFieldNumber" =>
         \E m \in Messages : \E j \in 1..Len(Fields(m)) : \E i \in 1..(j - 1) :
           /\ Fields(m)[i].number = Fields(m)[j].number
           /\ errors[e].other = Fields(m)[i].id.path \o <<tag.field.NUMBER>>
           /\ errors[e].found = Fields(m)[j].id.path \o <<tag.field.NUMBER>>

====
